---- MODULE Spec2Model ----
(***************************************************************************)
(* A model of xcipient: the DailyMed / NADAC drug search tools             *)
(* (dailymed_search.py, drug.py, check_availability.py).                   *)
(*                                                                         *)
(* Strings are sequences of one-character strings.  Each component of the  *)
(* program has its own variables and its own specification.                *)
(***************************************************************************)
EXTENDS Integers, Sequences, FiniteSets, TLC

VARIABLES
    \* ---- NDC normalizer (normalize_ndc, _normalize_ndc)
    ndcPc,        \* "start" | "done" | "again"
    ndcCode,      \* the input string
    ndcOut,       \* normalize_ndc(ndcCode) of dailymed_search.py
    ndcOutStage,  \* _normalize_ndc(ndcCode) of drug.py
    ndcTwice,     \* normalize_ndc(ndcOut)
    ndcTwiceStage, \* _normalize_ndc(ndcOutStage)
    \* ---- filter stage (cmd_filter), run in both modes on one input
    fDrugs,       \* the collection read from stdin
    fExcipient,   \* opts.excipient: the excluded names
    fRan,         \* the modes run so far: "default", "keep"
    fOutDefault,  \* the collection written without --keep
    fOutKeep,     \* the collection written with --keep
    \* ---- one run of an entry point that talks to the services
    prog,         \* the entry point that runs
    opts,         \* its arguments and options
    catalogSize,  \* how many entries the label-search catalog holds
    pc,           \* the position in the code
    page,         \* search: the page to request next
    found,        \* search: all_results / results so far
    coll,         \* the collection a loop walks: drugs (stdin or an argument)
    idx,          \* the index of the record the loop is at (1-based)
    passed,       \* the list a loop builds (passed, available, output, results)
    resp,         \* cmd_ingredients: the last bound value of resp
    ret,          \* the value returned or written to stdout
    raised,       \* an exception left the entry point
    nadac,        \* the NDCs listed in the pricing dataset
    log           \* the requests issued and the delays slept, in order

ndcVars == <<ndcPc, ndcCode, ndcOut, ndcOutStage, ndcTwice, ndcTwiceStage>>

filterVars == <<fDrugs, fExcipient, fRan, fOutDefault, fOutKeep>>

\* what a run is given: it never changes during the run
envVars == <<prog, opts, catalogSize, nadac>>

runVars ==
    <<prog, opts, catalogSize, nadac, pc, page, found, coll, idx, passed, resp,
      ret, raised, log>>

vars == <<ndcVars, filterVars, runVars>>

(***************************************************************************)
(* Bounds of the model.                                                    *)
(***************************************************************************)
\* longest string drawn from the full alphabet
MaxLen == 4
\* most digits in one segment of a generated code
MaxSegLen == 6
\* most digits of a generated dashless code
MaxDigits == 12
\* most records in an input collection of the filter stage
MaxRecs == 2
\* most excluded names on the command line of the filter stage
MaxExcluded == 2
\* the largest total_pages the label-search service reports
MaxPages == 3
\* most entries on one page of search results
MaxPageLen == 2
\* most entries of the catalog that match a search
MaxCatalog == 4
\* most entries of the catalog in a run of search_and_filter
MonoCatalog == 1
\* the largest --limit given to the search stage
MaxLimit == 3
\* stage runs: the records of an input list, and the setids they can have
MaxDrugs == 2
MaxSetid == 2
\* the by-name pricing query: rows of a full page (limit, 500 in the
\* code), and the pages it can take
BulkLimit == 2
MaxBulkPages == 2
\* most records in the input of the fmt stage
MaxFmt == 2
\* the longest title whose manufacturer is taken
MaxTitle == 6
\* most rows of the csv file of check_csv_availability
MaxCsvRows == 3

(***************************************************************************)
(* String helpers (Python's str methods, as the code uses them).           *)
(***************************************************************************)
Max(a, b) == IF a >= b THEN a ELSE b

Min(a, b) == IF a <= b THEN a ELSE b

\* n copies of the character c
Rep(c, n) == [i \in 1..n |-> c]

\* all strings over alphabet A of length at most n
Strings(A, n) == UNION {[1..k -> A] : k \in 0..n}

\* c in s, for a character c
HasChar(s, c) == \E i \in 1..Len(s) : s[i] = c

\* s.count(c), for a character c
RECURSIVE CountChar(_, _)
CountChar(s, c) ==
    IF s = <<>> THEN 0
    ELSE (IF Head(s) = c THEN 1 ELSE 0) + CountChar(Tail(s), c)

\* s.replace(c, "")
StripChar(s, c) == SelectSeq(s, LAMBDA x : x # c)

\* s.split(c): the list of the pieces between occurrences of c
RECURSIVE SplitFrom(_, _, _)
SplitFrom(s, c, cur) ==
    IF s = <<>> THEN <<cur>>
    ELSE IF Head(s) = c THEN <<cur>> \o SplitFrom(Tail(s), c, <<>>)
    ELSE SplitFrom(Tail(s), c, Append(cur, Head(s)))

Split(s, c) == SplitFrom(s, c, <<>>)

\* s.zfill(w): zeros are inserted after a leading sign character
zfill(s, w) ==
    IF Len(s) >= w THEN s
    ELSE IF s # <<>> /\ Head(s) \in {"+", "-"}
         THEN <<Head(s)>> \o Rep("0", w - Len(s)) \o Tail(s)
         ELSE Rep("0", w - Len(s)) \o s

(***************************************************************************)
(* NDC normalizer.                                                         *)
(***************************************************************************)
\* a plausible slip: the dashless branch "adds the leading zero" itself
normalize_ndc_lead0(ndc) ==
    LET parts == Split(ndc, "-")
    IN  IF HasChar(ndc, "-") /\ Len(parts) = 3
        THEN zfill(parts[1], 5) \o zfill(parts[2], 4) \o zfill(parts[3], 2)
        ELSE <<"0">> \o zfill(StripChar(ndc, "-"), 10)

\* a plausible slip: the product segment padded to 3, as in a 5-3-2 code
normalize_ndc_532(ndc) ==
    LET parts == Split(ndc, "-")
    IN  IF HasChar(ndc, "-") /\ Len(parts) = 3
        THEN zfill(parts[1], 5) \o zfill(parts[2], 3) \o zfill(parts[3], 2)
        ELSE zfill(StripChar(ndc, "-"), 11)

\* dailymed_search.normalize_ndc
normalize_ndc(ndc) ==
    LET parts == Split(ndc, "-")
    IN  IF HasChar(ndc, "-") /\ Len(parts) = 3
        THEN LET labeler == zfill(parts[1], 5)
                 product == zfill(parts[2], 4)
                 package == zfill(parts[3], 2)
             IN  labeler \o product \o package
        ELSE zfill(StripChar(ndc, "-"), 11)

\* drug._normalize_ndc
_normalize_ndc(ndc) ==
    LET p == Split(ndc, "-")
    IN  IF HasChar(ndc, "-") /\ Len(p) = 3
        THEN zfill(p[1], 5) \o zfill(p[2], 4) \o zfill(p[3], 2)
        ELSE zfill(StripChar(ndc, "-"), 11)

\* ---- the inputs of the normalizer
NdcAlphabet == {"0", "7", "-", "+"}

\* the digit used in the i-th segment of a generated code
SegDigit(i) == CASE i = 1 -> "1" [] i = 2 -> "2" [] i = 3 -> "3" [] OTHER -> "4"

\* a segment: an optional sign and n copies of the segment's digit
SegShapes == [sign : BOOLEAN, n : 0..MaxSegLen]

SegText(i, sh) == (IF sh.sign THEN <<"+">> ELSE <<>>) \o Rep(SegDigit(i), sh.n)

RECURSIVE JoinSegs(_, _)
JoinSegs(f, i) ==
    IF i > Len(f) THEN <<>>
    ELSE (IF i > 1 THEN <<"-">> ELSE <<>>) \o SegText(i, f[i]) \o JoinSegs(f, i + 1)

\* codes of 1 to 4 dash-separated segments
SegCodes == {JoinSegs(f, 1) : f \in UNION {[1..k -> SegShapes] : k \in 1..4}}

\* dashless codes of up to MaxDigits digits, with or without a sign
LongCodes ==
    {(IF sg THEN <<"+">> ELSE <<>>) \o Rep("9", n) : sg \in BOOLEAN, n \in 0..MaxDigits}

\* the codes of test_ndc_normalization
TestCode1 == <<"6","5","8","6","2","-","1","9","2","-","0","1">>

TestCode2 == <<"0","0","9","3","-","7","1","8","0","-","0","1">>

TestCode3 == <<"1","2","3","4","5","-","6","7","8","9","-","0","1">>

NdcInputs ==
    Strings(NdcAlphabet, MaxLen) \cup SegCodes \cup LongCodes
        \cup {TestCode1, TestCode2, TestCode3}

InitNdc ==
    /\ ndcPc = "start"
    /\ ndcCode \in NdcInputs
    /\ ndcOut = <<>>
    /\ ndcOutStage = <<>>
    /\ ndcTwice = <<>>
    /\ ndcTwiceStage = <<>>

\* the normalizer is not in use
IdleNdc ==
    /\ ndcPc = "idle"
    /\ ndcCode = <<>>
    /\ ndcOut = <<>>
    /\ ndcOutStage = <<>>
    /\ ndcTwice = <<>>
    /\ ndcTwiceStage = <<>>

\* both normalizers applied to the input
Normalize ==
    /\ ndcPc = "start"
    /\ ndcOut' = normalize_ndc(ndcCode)
    /\ ndcOutStage' = _normalize_ndc(ndcCode)
    /\ ndcPc' = "done"
    /\ UNCHANGED <<ndcCode, ndcTwice, ndcTwiceStage>>
    /\ UNCHANGED <<filterVars, runVars>>

\* both normalizers applied to their own result
Renormalize ==
    /\ ndcPc = "done"
    /\ ndcTwice' = normalize_ndc(ndcOut)
    /\ ndcTwiceStage' = _normalize_ndc(ndcOutStage)
    /\ ndcPc' = "again"
    /\ UNCHANGED <<ndcCode, ndcOut, ndcOutStage>>
    /\ UNCHANGED <<filterVars, runVars>>

NextNdc == Normalize \/ Renormalize

(***************************************************************************)
(* Excipient filter stage (drug.py, cmd_filter).                           *)
(***************************************************************************)
UpperLetters ==
    <<"A", "B", "C", "D", "E", "F", "G", "H", "I", "J", "K", "L", "M",
      "N", "O", "P", "Q", "R", "S", "T", "U", "V", "W", "X", "Y", "Z">>

LowerLetters ==
    <<"a", "b", "c", "d", "e", "f", "g", "h", "i", "j", "k", "l", "m",
      "n", "o", "p", "q", "r", "s", "t", "u", "v", "w", "x", "y", "z">>

LowerChar(c) ==
    IF \E i \in 1..26 : UpperLetters[i] = c
    THEN LowerLetters[CHOOSE i \in 1..26 : UpperLetters[i] = c]
    ELSE c

\* s.lower()
lower(s) == [i \in 1..Len(s) |-> LowerChar(s[i])]

\* needle in hay, for strings
IsSubstring(needle, hay) ==
    \E i \in 0..(Len(hay) - Len(needle)) :
        SubSeq(hay, i + 1, i + Len(needle)) = needle

\* sep.join(list)
RECURSIVE join(_, _)
join(sep, list) ==
    IF list = <<>> THEN <<>>
    ELSE IF Len(list) = 1 THEN list[1]
    ELSE list[1] \o sep \o join(sep, Tail(list))

\* d.get(key, default)
Get(d, key, default) == IF key \in DOMAIN d THEN d[key] ELSE default

\* cmd_filter: the match test of one record
has_excipient(drug, excipient) ==
    LET ingredients == lower(join(<<" ">>, Get(drug, "inactive_ingredients", <<>>)))
    IN  \E k \in 1..Len(excipient) : IsSubstring(lower(excipient[k]), ingredients)

\* a plausible slip: the --keep flag is not consulted
RECURSIVE cmd_filter_nokeep(_, _, _)
cmd_filter_nokeep(drugs, excipient, keep) ==
    IF drugs = <<>> THEN <<>>
    ELSE (IF ~has_excipient(Head(drugs), excipient) THEN <<Head(drugs)>> ELSE <<>>)
             \o cmd_filter_nokeep(Tail(drugs), excipient, keep)

\* a plausible slip: kept records are put at the front of the results
RECURSIVE cmd_filter_front(_, _, _)
cmd_filter_front(drugs, excipient, keep) ==
    IF drugs = <<>> THEN <<>>
    ELSE cmd_filter_front(Tail(drugs), excipient, keep)
             \o (IF has_excipient(Head(drugs), excipient) = keep
                 THEN <<Head(drugs)>> ELSE <<>>)

\* cmd_filter: the loop over the records, from the results so far
RECURSIVE cmd_filter_loop(_, _, _, _)
cmd_filter_loop(drugs, excipient, keep, results) ==
    IF drugs = <<>> THEN results
    ELSE LET drug == Head(drugs)
             next == IF keep
                     THEN IF has_excipient(drug, excipient)
                          THEN Append(results, drug) ELSE results
                     ELSE IF ~has_excipient(drug, excipient)
                          THEN Append(results, drug) ELSE results
         IN  cmd_filter_loop(Tail(drugs), excipient, keep, next)

\* cmd_filter: the collection written for the collection read
cmd_filter(drugs, excipient, keep) == cmd_filter_loop(drugs, excipient, keep, <<>>)

\* ---- the inputs of the filter stage
PropyleneGlycol ==
    <<"P","R","O","P","Y","L","E","N","E"," ","G","L","Y","C","O","L">>

PolyethyleneGlycol ==
    <<"P","O","L","Y","E","T","H","Y","L","E","N","E"," ","G","L","Y","C","O","L">>

Glycerin == <<"G","L","Y","C","E","R","I","N">>

\* the excluded phrase of test_partial_match
propylene_glycol == lower(PropyleneGlycol)

IngredientLists ==
    {<<>>, << <<"A">> >>, << <<"A">>, <<"b">> >>, << <<"b">>, <<"A">> >>,
     <<PropyleneGlycol>>, <<PolyethyleneGlycol, Glycerin>>,
     <<PolyethyleneGlycol, Glycerin, PropyleneGlycol>>}

\* records as the ingredients stage writes them, and search candidates
\* (no inactive_ingredients field), with two setids
FilterRecords ==
    {[setid |-> "s1", inactive_ingredients |-> l] : l \in IngredientLists}
        \cup {[setid |-> "s2", inactive_ingredients |-> l] :
                l \in {<<>>, <<PropyleneGlycol>>}}
        \cup {[setid |-> "s1"]}

ExcludedNames == {<<>>, <<"a">>, <<"B">>, <<"a", " ", "b">>, propylene_glycol}

\* all sequences over S of length lo..hi
SeqsOf(S, lo, hi) == UNION {[1..k -> S] : k \in lo..hi}

InitFilter ==
    /\ fDrugs \in SeqsOf(FilterRecords, 0, MaxRecs)
    /\ fExcipient \in SeqsOf(ExcludedNames, 1, MaxExcluded)
    /\ fRan = {}
    /\ fOutDefault = <<>>
    /\ fOutKeep = <<>>

\* the filter stage is not in use
IdleFilter ==
    /\ fDrugs = <<>>
    /\ fExcipient = <<>>
    /\ fRan = {"default", "keep"}
    /\ fOutDefault = <<>>
    /\ fOutKeep = <<>>

\* drug filter <excipient...>
FilterDefault ==
    /\ "default" \notin fRan
    /\ fOutDefault' = cmd_filter(fDrugs, fExcipient, FALSE)
    /\ fRan' = fRan \cup {"default"}
    /\ UNCHANGED <<fDrugs, fExcipient, fOutKeep>>
    /\ UNCHANGED <<ndcVars, runVars>>

\* drug filter --keep <excipient...>
FilterKeep ==
    /\ "keep" \notin fRan
    /\ fOutKeep' = cmd_filter(fDrugs, fExcipient, TRUE)
    /\ fRan' = fRan \cup {"keep"}
    /\ UNCHANGED <<fDrugs, fExcipient, fOutDefault>>
    /\ UNCHANGED <<ndcVars, runVars>>

NextFilter == FilterDefault \/ FilterKeep

(***************************************************************************)
(* Runs against the services.  A response is chosen when the request is    *)
(* made; the log keeps every request with its response, and every delay.   *)
(***************************************************************************)
NoValue == <<>>

\* no run is in progress
IdleRun ==
    /\ prog = "none"
    /\ opts = NoValue
    /\ catalogSize = 0
    /\ nadac = {}
    /\ pc = "done"
    /\ page = 0
    /\ found = <<>>
    /\ coll = <<>>
    /\ idx = 0
    /\ passed = <<>>
    /\ resp = NoValue
    /\ ret = NoValue
    /\ raised = FALSE
    /\ log = <<>>

GetEvent(svc, key, r) == [ev |-> "get", svc |-> svc, key |-> key, resp |-> r]

\* time.sleep(0.5)
SleepEvent == [ev |-> "sleep", svc |-> "none", key |-> 0, resp |-> NoValue]

Unknown == <<"U", "n", "k", "n", "o", "w", "n">>

\* the titles of the catalog: with a bracketed manufacturer, and without
TitleOf(k) ==
    IF k % 2 = 1 THEN <<"x", " ", "[", "M", "k", "]">> ELSE <<"y">>

\* the k-th entry of page p of the search results
Item(p, k) == [setid |-> 10 * p + k, title |-> TitleOf(k)]

PageItems(p, n) == [k \in 1..n |-> Item(p, k)]

\* the entries the service has sent so far in this run
RECURSIVE Served(_)
Served(l) ==
    IF l = <<>> THEN 0
    ELSE (IF Head(l).ev = "get" /\ Head(l).svc = "search"
          THEN Len(Head(l).resp.data) ELSE 0) + Served(Tail(l))

\* metadata of a search response: total_pages may be missing
Metadatas == {<<>>} \cup {[total_pages |-> t] : t \in 0..MaxPages}

\* what GET /spls.json can answer for page p: a transport failure, an HTTP
\* error status, or a body
SearchResponses(p) ==
    {[status |-> st, data |-> <<>>, metadata |-> <<>>] : st \in {"transport", "http"}}
        \cup {[status |-> "ok", data |-> PageItems(p, n), metadata |-> m] :
                n \in 0..Min(MaxPageLen, catalogSize - Served(log)),
                m \in Metadatas}

\* re.search(r'\[([^\]]+)\]', title): is there a match starting at i
BracketAt(t, k) ==
    /\ t[k] = "["
    /\ \E j \in (k + 2)..Len(t) :
           t[j] = "]" /\ \A m \in (k + 1)..(j - 1) : t[m] # "]"

\* re.search(r'\[([^\]]+)\]', title) finds a match
bracket_match(title) == \E k \in 1..Len(title) : BracketAt(title, k)

\* match.group(1) if match else "Unknown"
manufacturer_of(title) ==
    IF \E k \in 1..Len(title) : BracketAt(title, k)
    THEN LET k == CHOOSE a \in 1..Len(title) :
                      BracketAt(title, a) /\ \A b \in 1..(a - 1) : ~BracketAt(title, b)
             j == CHOOSE c \in (k + 2)..Len(title) :
                      title[c] = "]" /\ \A m \in (k + 1)..(c - 1) : title[m] # "]"
         IN  SubSeq(title, k + 1, j - 1)
    ELSE Unknown

\* ---- dailymed_search.search_drugs
\* a plausible slip: the status of the response is never looked at
sd_failed_transport(r) == r.status = "transport"

\* requests.get raises, or response.raise_for_status() does
sd_failed(r) == r.status # "ok"

\* one pass of the while loop: the request, and the delay when it goes on
sd_iteration ==
    /\ pc = "sd_loop"
    /\ \E r \in SearchResponses(page) :
           LET ev == GetEvent("search", page, r)
               all_results == found \o r.data
               total_pages == Get(r.metadata, "total_pages", 1)
           IN  IF sd_failed(r)
               THEN /\ raised' = TRUE
                    /\ pc' = "raised"
                    /\ log' = Append(log, ev)
                    /\ UNCHANGED <<page, found>>
               ELSE IF r.data = <<>>
               THEN /\ pc' = "sd_return"
                    /\ log' = Append(log, ev)
                    /\ UNCHANGED <<page, found, raised>>
               ELSE IF page >= total_pages
               THEN /\ found' = all_results
                    /\ pc' = "sd_return"
                    /\ log' = Append(log, ev)
                    /\ UNCHANGED <<page, raised>>
               ELSE /\ found' = all_results
                    /\ page' = page + 1
                    /\ log' = log \o <<ev, SleepEvent>>
                    /\ pc' = "sd_loop"
                    /\ UNCHANGED raised
    /\ UNCHANGED <<envVars, coll, idx, passed, resp, ret>>
    /\ UNCHANGED <<ndcVars, filterVars>>

\* search_drugs called on its own: return all_results
sd_return ==
    /\ pc = "sd_return"
    /\ prog = "search_drugs"
    /\ ret' = found
    /\ pc' = "done"
    /\ UNCHANGED <<envVars, page, found, coll, idx, passed, resp,
                   raised, log>>
    /\ UNCHANGED <<ndcVars, filterVars>>

\* ---- drug.cmd_search
\* the record the search stage keeps of one entry
Candidate(drug) ==
    LET title == Get(drug, "title", <<>>)
    IN  [setid |-> drug.setid, title |-> title, manufacturer |-> manufacturer_of(title)]

\* a plausible slip: the limit is only looked at after the whole page
RECURSIVE cs_collect_page(_, _, _)
cs_collect_page(data, res, limit) ==
    IF data = <<>> THEN res
    ELSE cs_collect_page(Tail(data), Append(res, Candidate(Head(data))), limit)

\* for drug in data: append, and leave the loop once the limit is reached
RECURSIVE cs_collect(_, _, _)
cs_collect(data, res, limit) ==
    IF data = <<>> THEN res
    ELSE LET res2 == Append(res, Candidate(Head(data)))
         IN  IF limit # 0 /\ Len(res2) >= limit THEN res2
             ELSE cs_collect(Tail(data), res2, limit)

\* a plausible slip: the loop ends only on the page whose number is the total
cs_last_page_eq(p, r) == p = Get(r.metadata, "total_pages", 1)

\* if page >= total_pages: break
cs_last_page(p, r) == p >= Get(r.metadata, "total_pages", 1)

\* one pass of the while loop
cs_iteration ==
    /\ pc = "cs_loop"
    /\ \E r \in SearchResponses(page) :
           LET ev == GetEvent("search", page, r)
               res == cs_collect(r.data, found, opts.limit)
           IN  IF r.status # "ok"
               THEN /\ raised' = TRUE
                    /\ pc' = "raised"
                    /\ log' = Append(log, ev)
                    /\ UNCHANGED <<page, found>>
               ELSE IF opts.limit # 0 /\ Len(res) >= opts.limit
               THEN /\ found' = res
                    /\ pc' = "cs_dump"
                    /\ log' = Append(log, ev)
                    /\ UNCHANGED <<page, raised>>
               ELSE IF cs_last_page(page, r)
               THEN /\ found' = res
                    /\ pc' = "cs_dump"
                    /\ log' = Append(log, ev)
                    /\ UNCHANGED <<page, raised>>
               ELSE /\ found' = res
                    /\ page' = page + 1
                    /\ log' = Append(log, ev)
                    /\ pc' = "cs_loop"
                    /\ UNCHANGED raised
    /\ UNCHANGED <<envVars, coll, idx, passed, resp, ret>>
    /\ UNCHANGED <<ndcVars, filterVars>>

\* json.dump(results, sys.stdout)
cs_dump ==
    /\ pc = "cs_dump"
    /\ ret' = found
    /\ pc' = "done"
    /\ UNCHANGED <<envVars, page, found, coll, idx, passed, resp,
                   raised, log>>
    /\ UNCHANGED <<ndcVars, filterVars>>

\* ---- the search runs: search_drugs(name) and drug search [-n LIMIT] name
InitSearch ==
    /\ prog \in {"search_drugs", "cmd_search"}
    /\ opts \in IF prog = "cmd_search" THEN [limit : 0..MaxLimit] ELSE {NoValue}
    /\ catalogSize = MaxCatalog
    /\ nadac = {}
    /\ pc = IF prog = "cmd_search" THEN "cs_loop" ELSE "sd_loop"
    /\ page = 1
    /\ found = <<>>
    /\ coll = <<>>
    /\ idx = 0
    /\ passed = <<>>
    /\ resp = NoValue
    /\ ret = NoValue
    /\ raised = FALSE
    /\ log = <<>>

NextSearch == sd_iteration \/ sd_return \/ cs_iteration \/ cs_dump

(***************************************************************************)
(* Label documents, packaging and NDC responses.                           *)
(***************************************************************************)
\* d with d[key] = val
Put(d, key, val) ==
    [k \in DOMAIN d \cup {key} |-> IF k = key THEN val ELSE d[k]]

IsSpace(c) == c \in {" ", "\n", "\t"}

\* s.strip()
RECURSIVE lstrip(_)
lstrip(s) == IF s # <<>> /\ IsSpace(Head(s)) THEN lstrip(Tail(s)) ELSE s

RECURSIVE rstrip(_)
rstrip(s) ==
    IF s # <<>> /\ IsSpace(s[Len(s)]) THEN rstrip(SubSeq(s, 1, Len(s) - 1)) ELSE s

strip(s) == rstrip(lstrip(s))

Lactose == <<"L", "a", "c", "t", "o", "s", "e">>

LACTOSE == <<"L", "A", "C", "T", "O", "S", "E">>

Talc == <<"T", "a", "l", "c">>

\* A label document (the text of GET /spls/{setid}.xml) is kept as what the
\* code reads from it: whether it parses as XML, its <subject> elements in
\* document order (units), and the names that the pattern
\*   <ingredient[^>]*classCode="IACT"[^>]*>.*?<name>([^<]+)</name>
\* captures from the text, in text order (iact).
\* A unit: has it a manufacturedProduct, its formCode displayName, its
\* numerators (unit, value), its ingredients (classCode, name text or
\* NoValue), and the code elements under the subject (codeSystem, code).
NdcSystem == <<"2", ".", "1", "6", ".", "8", "4", "0", ".", "1", ".", "1", "1", "3", "8", "8", "3", ".", "6", ".", "6", "9">>

OtherSystem == <<"2", ".", "1", "6", ".", "8", "4", "0", ".", "1", ".", "1", "1", "3", "8", "8", "3", ".", "6", ".", "1">>

RawNdcA == <<"1", "-", "2", "-", "3">>

RawNdcB == <<"4", "4", "4", "4", "-", "5", "5", "5", "-", "6">>

CAPSULE == <<"C", "A", "P", "S", "U", "L", "E">>

TABLET == <<"T", "A", "B", "L", "E", "T">>

mg == <<"m", "g">>

UnitPG ==
    [hasProduct |-> TRUE,
     form |-> CAPSULE,
     numerators |-> <<[unit |-> <<"1">>, value |-> <<"1">>],
                      [unit |-> mg, value |-> <<"1", "0">>]>>,
     ingredients |-> <<[classCode |-> "ACTIB", name |-> <<"F">>],
                       [classCode |-> "IACT", name |-> PropyleneGlycol],
                       [classCode |-> "IACT", name |-> lower(PropyleneGlycol)]>>,
     codes |-> <<[codeSystem |-> NdcSystem, code |-> RawNdcA],
                 [codeSystem |-> OtherSystem, code |-> <<"C", "4">>],
                 [codeSystem |-> NdcSystem, code |-> <<"1", "-", "2">>]>>]

UnitPEG ==
    [hasProduct |-> TRUE,
     form |-> TABLET,
     numerators |-> <<[unit |-> mg, value |-> <<"2", "0">>]>>,
     ingredients |-> <<[classCode |-> "IACT", name |-> PolyethyleneGlycol],
                       [classCode |-> "IACT", name |-> <<" ">> \o Glycerin],
                       [classCode |-> "IACT", name |-> NoValue]>>,
     codes |-> <<[codeSystem |-> NdcSystem, code |-> RawNdcB],
                 [codeSystem |-> NdcSystem, code |-> RawNdcB],
                 [codeSystem |-> NdcSystem, code |-> RawNdcA]>>]

UnitNoProduct ==
    [hasProduct |-> FALSE, form |-> <<>>, numerators |-> <<>>,
     ingredients |-> <<>>, codes |-> <<>>]

\* one product with propylene glycol
DocPG ==
    [wellFormed |-> TRUE, units |-> <<UnitPG>>,
     iact |-> <<PropyleneGlycol, lower(PropyleneGlycol)>>]

\* two products, the second without propylene glycol
DocTwo ==
    [wellFormed |-> TRUE, units |-> <<UnitPG, UnitNoProduct, UnitPEG>>,
     iact |-> <<PropyleneGlycol, lower(PropyleneGlycol), PolyethyleneGlycol,
                <<" ">> \o Glycerin>>]

\* no <subject> with a product, but ingredient tags in the text
DocFlat ==
    [wellFormed |-> FALSE, units |-> <<>>,
     iact |-> <<Lactose, <<" ">> \o Talc, LACTOSE, Lactose>>]

\* one product without propylene glycol
DocPEG ==
    [wellFormed |-> TRUE, units |-> <<UnitPEG>>,
     iact |-> <<PolyethyleneGlycol, <<" ">> \o Glycerin>>]

\* the sentence of a label without ingredient tags
SentenceText ==
    <<"<", "p", ">", "I", "n", "a", "c", "t", "i", "v", "e", " ", "i", "n", "g", "r", "e", "d", "i", "e", "n", "t", "s", " ", "i", "n", "c", "l", "u", "d", "e", " ", "L", "a", "c", "t", "o", "s", "e", ",", " ", "C", "o", "r", "n", " ", "S", "t", "a", "r", "c", "h", " ", "a", "n", "d", " ", "T", "a", "l", "c", ".", "<", "/", "p", ">">>

\* a document without ingredient tags that names the ingredients in a
\* sentence; text is the character data the sentence pattern is searched in
DocSentence == [wellFormed |-> TRUE, units |-> <<>>, iact |-> <<>>, text |-> SentenceText]

\* a document with nothing in it
DocNone == [wellFormed |-> TRUE, units |-> <<>>, iact |-> <<>>]

\* the body of an HTTP error response
ErrorBody == [wellFormed |-> FALSE, units |-> <<>>, iact |-> <<>>]

\* parse_inactive_ingredients_from_xml, method 1: the loop over the matches
RECURSIVE piix_loop(_, _, _)
piix_loop(matches, seen, ingredients) ==
    IF matches = <<>> THEN ingredients
    ELSE LET name == strip(Head(matches))
         IN  IF name # <<>> /\ lower(name) \notin seen
             THEN piix_loop(Tail(matches), seen \cup {lower(name)},
                            Append(ingredients, [name |-> name]))
             ELSE piix_loop(Tail(matches), seen, ingredients)

\* the character of s at position n, "" beyond its end
At(s, n) == IF n \in 1..Len(s) THEN s[n] ELSE ""

\* w stands in s at position n
StartsWithAt(s, n, w) ==
    n >= 1 /\ n + Len(w) - 1 <= Len(s) /\ SubSeq(s, n, n + Len(w) - 1) = w

\* the first position from n on that holds no white space
RECURSIVE SkipSpaces(_, _)
SkipSpaces(s, n) == IF IsSpace(At(s, n)) THEN SkipSpaces(s, n + 1) ELSE n

KwInactive == <<"n", "a", "c", "t", "i", "v", "e">>

KwIngredient == <<"i", "n", "g", "r", "e", "d", "i", "e", "n", "t">>

KwInclude == <<"i", "n", "c", "l", "u", "d", "e">>

\* [Ii]nactive\s+ingredients?\s+(?:include|:)\s*([^<]+) matched at position
\* n: the position where the group starts, 0 when there is no match
SentenceAt(s, n) ==
    IF ~(At(s, n) \in {"I", "i"} /\ StartsWithAt(s, n + 1, KwInactive)
             /\ IsSpace(At(s, n + 8)))
    THEN 0
    ELSE LET a == SkipSpaces(s, n + 8)
         IN  IF ~StartsWithAt(s, a, KwIngredient) THEN 0
             ELSE LET b == IF At(s, a + 10) = "s" THEN a + 11 ELSE a + 10
                  IN  IF ~IsSpace(At(s, b)) THEN 0
                      ELSE LET c == SkipSpaces(s, b)
                               d == IF StartsWithAt(s, c, KwInclude) THEN c + 7
                                    ELSE IF At(s, c) = ":" THEN c + 1 ELSE 0
                           IN  IF d = 0 \/ d > Len(s) \/ At(s, d) = "<" THEN 0 ELSE d

\* the characters from position n up to the next "<"
RECURSIVE UpToTag(_, _)
UpToTag(s, n) ==
    IF n > Len(s) \/ s[n] = "<" THEN <<>> ELSE <<s[n]>> \o UpToTag(s, n + 1)

\* re.sub(r'\s+', ' ', text)
RECURSIVE squeeze(_)
squeeze(s) ==
    IF s = <<>> THEN <<>>
    ELSE IF IsSpace(Head(s))
    THEN <<" ">> \o squeeze(SubSeq(s, SkipSpaces(s, 1), Len(s)))
    ELSE <<Head(s)>> \o squeeze(Tail(s))

\* text.rstrip('.')
RECURSIVE rstrip_dots(_)
rstrip_dots(s) ==
    IF s # <<>> /\ s[Len(s)] = "." THEN rstrip_dots(SubSeq(s, 1, Len(s) - 1)) ELSE s

KwAnd == <<"a", "n", "d">>

\* re.split(r',\s*|\s+and\s+', text) from position n, cur being the part
\* read so far
RECURSIVE m2_split(_, _, _)
m2_split(s, n, cur) ==
    IF n > Len(s) THEN <<cur>>
    ELSE IF s[n] = ","
    THEN <<cur>> \o m2_split(s, SkipSpaces(s, n + 1), <<>>)
    ELSE IF IsSpace(s[n]) /\ StartsWithAt(s, SkipSpaces(s, n), KwAnd)
                /\ IsSpace(At(s, SkipSpaces(s, n) + 3))
    THEN <<cur>> \o m2_split(s, SkipSpaces(s, SkipSpaces(s, n) + 3), <<>>)
    ELSE m2_split(s, n + 1, Append(cur, s[n]))

\* method 2: the loop over the parts
RECURSIVE m2_loop(_, _, _)
m2_loop(parts, seen, ingredients) ==
    IF parts = <<>> THEN ingredients
    ELSE LET part == strip(Head(parts))
         IN  IF part # <<>> /\ Len(part) > 1 /\ lower(part) \notin seen
             THEN m2_loop(Tail(parts), seen \cup {lower(part)},
                          Append(ingredients, [name |-> part]))
             ELSE m2_loop(Tail(parts), seen, ingredients)

\* method 2: the first match of the sentence pattern in the text, split
\* into names
method2(text) ==
    LET starts == {n \in 1..Len(text) : SentenceAt(text, n) # 0}
    IN  IF starts = {} THEN <<>>
        ELSE LET n == CHOOSE a \in starts : \A b \in starts : a <= b
                 group == UpToTag(text, SentenceAt(text, n))
                 cleaned == rstrip_dots(strip(squeeze(group)))
             IN  m2_loop(m2_split(cleaned, 1, <<>>), {}, <<>>)

\* parse_inactive_ingredients_from_xml: the tagged ingredients, and the
\* sentence when there are none
parse_inactive_ingredients_from_xml(xml_text) ==
    LET ingredients == piix_loop(xml_text.iact, {}, <<>>)
    IN  IF ingredients # <<>> THEN ingredients
        ELSE method2(Get(xml_text, "text", <<>>))

\* a request that failed: requests.RequestException, from the transport or
\* from raise_for_status
Failed == [status |-> "error", body |-> NoValue]

Ok(body) == [status |-> "ok", body |-> body]

\* GET /spls/{setid}.xml as get_inactive_ingredients sees it
LabelResponses == {Failed, Ok(DocPG), Ok(DocPEG), Ok(DocSentence)}

\* get_inactive_ingredients, given the response
get_inactive_ingredients(r) ==
    IF r.status = "ok" THEN parse_inactive_ingredients_from_xml(r.body) ELSE <<>>

Product1 ==
    [dosage_form |-> CAPSULE, strength |-> <<"1", "0", " ", "m", "g">>,
     route |-> <<"O", "R", "A", "L">>,
     active_ingredients |-> <<[name |-> <<"F">>, strength |-> <<"1", "0">>]>>]

\* GET /spls/{setid}/packaging.json: data.products
PackagingResponses == {Failed, Ok(<<>>), Ok(<<Product1>>)}

\* get_packaging_info, given the response
get_packaging_info(r) ==
    IF r.status = "ok"
    THEN IF r.body # <<>>
         THEN [products |-> r.body,
               active_ingredient |-> Get(r.body[1], "active_ingredients", <<>>)]
         ELSE [products |-> r.body]
    ELSE <<>>

\* GET /spls/{setid}/ndcs.json: data.ndcs
NdcLists == {<<>>, <<[ndc |-> <<>>], [ndc |-> RawNdcB], [ndc |-> RawNdcA]>>}

NdcsResponses == {Failed} \cup {Ok(l) : l \in NdcLists}

\* [normalize_ndc(n.get("ndc", "")) for n in ndcs if n.get("ndc")]
RECURSIVE normalized_ndcs(_)
normalized_ndcs(ndcs) ==
    IF ndcs = <<>> THEN <<>>
    ELSE (IF Get(Head(ndcs), "ndc", <<>>) # <<>>
          THEN <<normalize_ndc(Get(Head(ndcs), "ndc", <<>>))>> ELSE <<>>)
             \o normalized_ndcs(Tail(ndcs))

\* get_dailymed_ndcs, given the response
get_dailymed_ndcs(r) == IF r.status = "ok" THEN normalized_ndcs(r.body) ELSE <<>>

\* the point query of the pricing dataset for one NDC: it fails, or it
\* reports the count of matching rows
NadacResponses(ndc) == {Failed, Ok([count |-> IF ndc \in nadac THEN 1 ELSE 0])}

\* check_ndc_in_nadac, given the response
check_ndc_in_nadac(r) == r.status = "ok" /\ Get(r.body, "count", 0) > 0

\* the pricing datasets of the model: one that lists none of the NDCs, one
\* that lists only RawNdcA, one that lists only RawNdcB
NadacWorlds == {{}, {normalize_ndc(RawNdcA)}, {normalize_ndc(RawNdcB)}}

(***************************************************************************)
(* dailymed_search: filter_by_excipients, filter_by_availability and       *)
(* search_and_filter.                                                      *)
(***************************************************************************)
\* filter_by_excipients: excluded_lower
lower_all(names) == [k \in 1..Len(names) |-> lower(names[k])]

\* a plausible slip: the ingredient name is compared as it is spelled
has_excluded_cased(inactive_ingredients, excluded_lower) ==
    \E n \in 1..Len(inactive_ingredients) :
        LET ingredient_name == Get(inactive_ingredients[n], "name", <<>>)
        IN  \E k \in 1..Len(excluded_lower) :
                IsSubstring(excluded_lower[k], ingredient_name)

\* a plausible slip: a drug that brought no ingredients counts as excluded
has_excluded_empty(inactive_ingredients, excluded_lower) ==
    \/ inactive_ingredients = <<>>
    \/ \E n \in 1..Len(inactive_ingredients) :
           LET ingredient_name == lower(Get(inactive_ingredients[n], "name", <<>>))
           IN  \E k \in 1..Len(excluded_lower) :
                   IsSubstring(excluded_lower[k], ingredient_name)

\* filter_by_excipients: has_excluded, the nested loops over the
\* ingredients and the excluded names
has_excluded(inactive_ingredients, excluded_lower) ==
    \E n \in 1..Len(inactive_ingredients) :
        LET ingredient_name == lower(Get(inactive_ingredients[n], "name", <<>>))
        IN  \E k \in 1..Len(excluded_lower) :
                IsSubstring(excluded_lower[k], ingredient_name)

\* where a loop over seq goes after the pass at index k
AfterPass(k, seq, again, after) == IF k < Len(seq) THEN again ELSE after

\* phase 1, one pass: the ingredient request for one drug, and the verdict
fbe_phase1 ==
    /\ pc = "fbe_phase1"
    /\ \E r \in LabelResponses :
           LET drug == coll[idx]
               title == Get(drug, "title", Unknown)
               inactive_ingredients == get_inactive_ingredients(r)
               kept == Put(Put(drug, "_inactive_ingredients", inactive_ingredients),
                           "_manufacturer", manufacturer_of(title))
               passed2 == IF has_excluded(inactive_ingredients,
                                          lower_all(opts.excluded))
                          THEN passed ELSE Append(passed, kept)
           IN  /\ log' = Append(log, GetEvent("label", drug.setid, r))
               /\ passed' = passed2
               /\ idx' = IF idx < Len(coll) THEN idx + 1 ELSE 1
               /\ pc' = AfterPass(idx, coll, "fbe_phase1",
                                  IF passed2 # <<>> THEN "fbe_phase2" ELSE "fbe_return")
    /\ UNCHANGED <<envVars, page, found, coll, resp, ret, raised>>
    /\ UNCHANGED <<ndcVars, filterVars>>

\* phase 2, one pass: the packaging request for one drug that passed
fbe_phase2 ==
    /\ pc = "fbe_phase2"
    /\ \E r \in PackagingResponses :
           LET drug == passed[idx]
               pkg_info == get_packaging_info(r)
               details ==
                   [products |-> Get(pkg_info, "products", <<>>),
                    active_ingredient |-> Get(pkg_info, "active_ingredient", <<>>),
                    inactive_ingredient |-> Get(drug, "_inactive_ingredients", <<>>),
                    labeler |-> Get(drug, "_manufacturer", Unknown)]
           IN  /\ log' = Append(log, GetEvent("packaging", drug.setid, r))
               /\ passed' = [passed EXCEPT ![idx] = Put(drug, "_details", details)]
               /\ idx' = IF idx < Len(passed) THEN idx + 1 ELSE 1
               /\ pc' = AfterPass(idx, passed, "fbe_phase2", "fbe_return")
    /\ UNCHANGED <<envVars, page, found, coll, resp, ret, raised>>
    /\ UNCHANGED <<ndcVars, filterVars>>

\* filter_by_excipients called on its own: return passed
fbe_return ==
    /\ pc = "fbe_return"
    /\ prog = "filter_by_excipients"
    /\ ret' = passed
    /\ pc' = "done"
    /\ UNCHANGED <<envVars, page, found, coll, idx, passed, resp, raised, log>>
    /\ UNCHANGED <<ndcVars, filterVars>>

\* filter_by_availability, one pass: the NDC request for one drug and, when
\* it has NDCs, the pricing lookup of the first one
fba_loop ==
    /\ pc = "fba_loop"
    /\ \E r1 \in NdcsResponses :
           LET drug == coll[idx]
               drug_ndcs == get_dailymed_ndcs(r1)
               ev1 == GetEvent("ndcs", drug.setid, r1)
           IN  IF drug_ndcs = <<>>
               THEN /\ log' = Append(log, ev1)
                    /\ UNCHANGED passed
               ELSE \E r2 \in NadacResponses(drug_ndcs[1]) :
                        /\ log' = log \o <<ev1, GetEvent("nadac", drug_ndcs[1], r2)>>
                        /\ passed' =
                               IF check_ndc_in_nadac(r2)
                               THEN Append(passed, Put(drug, "_available_ndcs", drug_ndcs))
                               ELSE passed
    /\ idx' = IF idx < Len(coll) THEN idx + 1 ELSE 1
    /\ pc' = AfterPass(idx, coll, "fba_loop", "fba_return")
    /\ UNCHANGED <<envVars, page, found, coll, resp, ret, raised>>
    /\ UNCHANGED <<ndcVars, filterVars>>

\* filter_by_availability called on its own: return available
fba_return ==
    /\ pc = "fba_return"
    /\ prog = "filter_by_availability"
    /\ ret' = passed
    /\ pc' = "done"
    /\ UNCHANGED <<envVars, page, found, coll, idx, passed, resp, raised, log>>
    /\ UNCHANGED <<ndcVars, filterVars>>

\* get_drug_details, given the responses of its two requests
get_drug_details(title, rp, rl) ==
    LET pkg_info == get_packaging_info(rp)
        data == [products |-> Get(pkg_info, "products", <<>>),
                 active_ingredient |-> Get(pkg_info, "active_ingredient", <<>>),
                 inactive_ingredient |-> get_inactive_ingredients(rl)]
    IN  [data |-> IF title # <<>> /\ bracket_match(title)
                  THEN Put(data, "labeler", manufacturer_of(title))
                  ELSE data]

\* extract_drug_info
extract_drug_info(drug) ==
    LET details == Get(drug, "_details", <<>>)
        products == Get(details, "products", <<>>)
        shown == SelectSeq(products,
                     LAMBDA q : Get(q, "dosage_form", <<>>) # <<>>
                                    \/ Get(q, "strength", <<>>) # <<>>)
        inactive == Get(drug, "_inactive_ingredients", <<>>)
    IN  [setid |-> Get(drug, "setid", NoValue),
         title |-> Get(drug, "title", NoValue),
         manufacturer |-> Get(details, "labeler", Unknown),
         active_ingredients |-> Get(details, "active_ingredient", <<>>),
         dosage_forms |->
             [k \in 1..Len(shown) |->
                 [dosage_form |-> Get(shown[k], "dosage_form", <<>>),
                  strength |-> Get(shown[k], "strength", <<>>),
                  route |-> Get(shown[k], "route", <<>>)]],
         inactive_ingredients |->
             [k \in 1..Len(inactive) |-> Get(inactive[k], "name", NoValue)]]

\* search_and_filter after search_drugs has returned
saf_after_search ==
    /\ pc = "sd_return"
    /\ prog = "search_and_filter"
    /\ IF found = <<>>
       THEN /\ ret' = <<>>
            /\ pc' = "done"
            /\ UNCHANGED <<coll, idx, passed>>
       ELSE /\ coll' = found
            /\ idx' = 1
            /\ passed' = <<>>
            /\ pc' = IF opts.excluded # <<>> THEN "fbe_phase1" ELSE "saf_details"
            /\ UNCHANGED ret
    /\ UNCHANGED <<envVars, page, found, resp, raised, log>>
    /\ UNCHANGED <<ndcVars, filterVars>>

\* no excluded names: the details of one drug (packaging, then the label)
saf_details ==
    /\ pc = "saf_details"
    /\ \E rp \in PackagingResponses, rl \in LabelResponses :
           LET drug == coll[idx]
               details == get_drug_details(Get(drug, "title", <<>>), rp, rl)
               drug2 == Put(Put(drug, "_details", details.data),
                            "_inactive_ingredients",
                            Get(details.data, "inactive_ingredient", <<>>))
           IN  /\ log' = log \o <<GetEvent("packaging", drug.setid, rp),
                                  GetEvent("label", drug.setid, rl)>>
               /\ coll' = [coll EXCEPT ![idx] = drug2]
    /\ idx' = IF idx < Len(coll) THEN idx + 1 ELSE 1
    /\ pc' = AfterPass(idx, coll, "saf_details", "saf_filtered")
    /\ UNCHANGED <<envVars, page, found, passed, resp, ret, raised>>
    /\ UNCHANGED <<ndcVars, filterVars>>

\* drugs = filter_by_excipients(drugs, ...)
saf_after_filter ==
    /\ pc = "fbe_return"
    /\ prog = "search_and_filter"
    /\ coll' = passed
    /\ pc' = "saf_filtered"
    /\ UNCHANGED <<envVars, page, found, idx, passed, resp, ret, raised, log>>
    /\ UNCHANGED <<ndcVars, filterVars>>

\* if not drugs: return []; then the availability filter, if asked for
saf_filtered ==
    /\ pc = "saf_filtered"
    /\ IF coll = <<>>
       THEN /\ ret' = <<>>
            /\ pc' = "done"
            /\ UNCHANGED <<idx, passed>>
       ELSE IF opts.check_availability
       THEN /\ pc' = "fba_loop"
            /\ idx' = 1
            /\ passed' = <<>>
            /\ UNCHANGED ret
       ELSE /\ pc' = "saf_extract"
            /\ UNCHANGED <<idx, passed, ret>>
    /\ UNCHANGED <<envVars, page, found, coll, resp, raised, log>>
    /\ UNCHANGED <<ndcVars, filterVars>>

\* drugs = filter_by_availability(drugs); if not drugs: return []
saf_after_availability ==
    /\ pc = "fba_return"
    /\ prog = "search_and_filter"
    /\ coll' = passed
    /\ IF passed = <<>>
       THEN ret' = <<>> /\ pc' = "done"
       ELSE pc' = "saf_extract" /\ UNCHANGED ret
    /\ UNCHANGED <<envVars, page, found, idx, passed, resp, raised, log>>
    /\ UNCHANGED <<ndcVars, filterVars>>

\* results = [extract_drug_info(drug) for drug in drugs]
saf_extract ==
    /\ pc = "saf_extract"
    /\ ret' = [k \in 1..Len(coll) |-> extract_drug_info(coll[k])]
    /\ pc' = "done"
    /\ UNCHANGED <<envVars, page, found, coll, idx, passed, resp, raised, log>>
    /\ UNCHANGED <<ndcVars, filterVars>>

\* ---- the monolithic runs: search_and_filter, beside the two searches
SafOptions ==
    [excluded : {<<>>, <<propylene_glycol>>}, check_availability : BOOLEAN]

InitMono ==
    /\ prog \in {"search_and_filter", "search_drugs", "cmd_search"}
    /\ opts \in CASE prog = "search_and_filter" -> SafOptions
                  [] prog = "cmd_search" -> [limit : {0, 1}]
                  [] OTHER -> {NoValue}
    /\ catalogSize = MonoCatalog
    /\ nadac \in IF prog = "search_and_filter" THEN NadacWorlds ELSE {{}}
    /\ pc = IF prog = "cmd_search" THEN "cs_loop" ELSE "sd_loop"
    /\ page = 1
    /\ found = <<>>
    /\ coll = <<>>
    /\ idx = 0
    /\ passed = <<>>
    /\ resp = NoValue
    /\ ret = NoValue
    /\ raised = FALSE
    /\ log = <<>>

NextMono ==
    \/ sd_iteration
    \/ sd_return
    \/ cs_iteration
    \/ cs_dump
    \/ saf_after_search
    \/ fbe_phase1
    \/ fbe_phase2
    \/ saf_after_filter
    \/ saf_details
    \/ saf_filtered
    \/ fba_loop
    \/ saf_after_availability
    \/ saf_extract

(***************************************************************************)
(* drug.py: the ingredients stage.                                         *)
(***************************************************************************)
\* strength: the first <numerator> with a unit other than "1" and a value
RECURSIVE pp_strength(_)
pp_strength(numerators) ==
    IF numerators = <<>> THEN <<>>
    ELSE LET unit == Get(Head(numerators), "unit", <<>>)
             val == Get(Head(numerators), "value", <<>>)
         IN  IF unit # <<>> /\ unit # <<"1">> /\ val # <<>>
             THEN val \o <<" ">> \o unit
             ELSE pp_strength(Tail(numerators))

\* the loop over the <ingredient> elements of a product
RECURSIVE pp_ingredients(_, _, _)
pp_ingredients(ings, seen, ingredients) ==
    IF ings = <<>> THEN ingredients
    ELSE LET ing == Head(ings)
             name == strip(ing.name)
         IN  IF ing.classCode = "IACT" /\ ing.name # NoValue
                    /\ lower(name) \notin seen
             THEN pp_ingredients(Tail(ings), seen \cup {lower(name)},
                                 Append(ingredients, name))
             ELSE pp_ingredients(Tail(ings), seen, ingredients)

\* the loop over the <code> elements of a subject
RECURSIVE pp_ndcs(_, _, _)
pp_ndcs(codes, ndc_seen, ndcs) ==
    IF codes = <<>> THEN ndcs
    ELSE LET raw == Head(codes).code
         IN  IF Head(codes).codeSystem = NdcSystem /\ CountChar(raw, "-") = 2
                    /\ raw \notin ndc_seen
             THEN pp_ndcs(Tail(codes), ndc_seen \cup {raw},
                          Append(ndcs, _normalize_ndc(raw)))
             ELSE pp_ndcs(Tail(codes), ndc_seen, ndcs)

\* the loop over the <subject> elements
RECURSIVE pp_subjects(_)
pp_subjects(units) ==
    IF units = <<>> THEN <<>>
    ELSE (IF Head(units).hasProduct
          THEN <<[form |-> Head(units).form,
                  strength |-> pp_strength(Head(units).numerators),
                  inactive_ingredients |->
                      pp_ingredients(Head(units).ingredients, {}, <<>>),
                  ndcs |-> pp_ndcs(Head(units).codes, {}, <<>>)]>>
          ELSE <<>>) \o pp_subjects(Tail(units))

\* _parse_products: nothing when the text is not well-formed XML
_parse_products(xml_text) ==
    IF xml_text.wellFormed THEN pp_subjects(xml_text.units) ELSE <<>>

\* GET /spls/{setid}.xml as cmd_ingredients sees it: requests.get raises, or
\* it returns a response with an error status, or with a document
IngredientResponses ==
    {[status |-> "transport", body |-> NoValue], [status |-> "http", body |-> ErrorBody]}
        \cup {Ok(d) : d \in {DocPG, DocTwo, DocFlat, DocNone, DocSentence}}

\* the orders in which list(set(...)) can give the elements of S
Orders(S) ==
    {f \in [1..Cardinality(S) -> S] : \A x \in S : \E k \in DOMAIN f : f[k] = x}

\* set(m.strip() for m in matches)
stripped_set(matches) == {strip(matches[k]) : k \in 1..Len(matches)}

\* a plausible slip: the products are numbered from 1
ci_products_from1(drug, products) ==
    [k \in 1..Len(products) |->
        [setid |-> drug.setid,
         title |-> Get(drug, "title", <<>>),
         manufacturer |-> Get(drug, "manufacturer", <<>>),
         product_index |-> k,
         form |-> products[k].form,
         strength |-> products[k].strength,
         inactive_ingredients |-> products[k].inactive_ingredients,
         ndcs |-> products[k].ndcs]]

\* the records of one drug with parsed products
ci_products(drug, products) ==
    [k \in 1..Len(products) |->
        [setid |-> drug.setid,
         title |-> Get(drug, "title", <<>>),
         manufacturer |-> Get(drug, "manufacturer", <<>>),
         product_index |-> k - 1,
         form |-> products[k].form,
         strength |-> products[k].strength,
         inactive_ingredients |-> products[k].inactive_ingredients,
         ndcs |-> products[k].ndcs]]

\* the record of one drug without parsed products
ci_fallback(drug, ingredients) ==
    Put(Put(Put(Put(Put(drug, "product_index", 0), "form", <<>>), "strength", <<>>),
            "inactive_ingredients", ingredients), "ndcs", <<>>)

\* cmd_ingredients, one pass of the loop over the drugs.  resp is the
\* local variable of that name: <<>> while unbound, else the last response
\* that requests.get returned.
ci_loop ==
    /\ pc = "ci_loop"
    /\ \E r \in IngredientResponses :
           LET drug == coll[idx]
               resp2 == IF r.status = "transport" THEN resp ELSE <<r>>
               products == IF r.status = "ok" THEN _parse_products(r.body) ELSE <<>>
           IN  /\ resp' = resp2
               /\ log' = Append(log, GetEvent("label", drug.setid, r))
               /\ IF products # <<>>
                  THEN passed' = passed \o ci_products(drug, products)
                  ELSE \E ingredients \in
                               (IF resp2 = <<>> THEN {<<>>}
                                ELSE Orders(stripped_set(resp2[1].body.iact))) :
                           passed' = Append(passed, ci_fallback(drug, ingredients))
    /\ idx' = IF idx < Len(coll) THEN idx + 1 ELSE 1
    /\ pc' = AfterPass(idx, coll, "ci_loop", "ci_dump")
    /\ UNCHANGED <<envVars, page, found, coll, ret, raised>>
    /\ UNCHANGED <<ndcVars, filterVars>>

\* json.dump(output, sys.stdout)
ci_dump ==
    /\ pc = "ci_dump"
    /\ ret' = passed
    /\ pc' = "done"
    /\ UNCHANGED <<envVars, page, found, coll, idx, passed, resp, raised, log>>
    /\ UNCHANGED <<ndcVars, filterVars>>

(***************************************************************************)
(* drug.py: the filter, ndcs and nadac stages.                             *)
(***************************************************************************)
\* cmd_filter: the loop over the drugs, and the dump
cf_run ==
    /\ pc = "cf_run"
    /\ ret' = cmd_filter(coll, opts.excipient, opts.keep)
    /\ pc' = "done"
    /\ UNCHANGED <<envVars, page, found, coll, idx, passed, resp, raised, log>>
    /\ UNCHANGED <<ndcVars, filterVars>>

\* [_normalize_ndc(n["ndc"]) for n in ndcs if n.get("ndc")]
RECURSIVE cn_normalized(_)
cn_normalized(ndcs) ==
    IF ndcs = <<>> THEN <<>>
    ELSE (IF Get(Head(ndcs), "ndc", <<>>) # <<>>
          THEN <<_normalize_ndc(Head(ndcs).ndc)>> ELSE <<>>)
             \o cn_normalized(Tail(ndcs))

\* GET /spls/{setid}/ndcs.json as cmd_ndcs sees it: beside the outcomes of
\* NdcsResponses, a response with an HTTP error status and a body
CnResponses == NdcsResponses \cup {[status |-> "http", body |-> l] : l \in NdcLists}

\* a plausible slip: a record is skipped as soon as it has the field
cn_skip_present(drug) == "ndcs" \in DOMAIN drug

\* if drug.get("ndcs"): continue
cn_skip(drug) == Get(drug, "ndcs", <<>>) # <<>>

\* cmd_ndcs, one pass of the loop: a drug that has NDCs is skipped, any
\* other gets the NDCs of the response body (the status of the response is
\* not looked at), or none when the request or the reading of the body raises
cn_loop ==
    /\ pc = "cn_loop"
    /\ LET drug == coll[idx]
       IN  IF cn_skip(drug)
           THEN UNCHANGED <<coll, log>>
           ELSE \E r \in CnResponses :
                    /\ log' = Append(log, GetEvent("ndcs", drug.setid, r))
                    /\ coll' = [coll EXCEPT ![idx] =
                                   Put(drug, "ndcs",
                                       IF r.status # "error" THEN cn_normalized(r.body)
                                       ELSE <<>>)]
    /\ idx' = IF idx < Len(coll) THEN idx + 1 ELSE 1
    /\ pc' = AfterPass(idx, coll, "cn_loop", "cn_dump")
    /\ UNCHANGED <<envVars, page, found, passed, resp, ret, raised>>
    /\ UNCHANGED <<ndcVars, filterVars>>

\* json.dump(drugs, sys.stdout)
cn_dump ==
    /\ pc = "cn_dump"
    /\ ret' = coll
    /\ pc' = "done"
    /\ UNCHANGED <<envVars, page, found, coll, idx, passed, resp, raised, log>>
    /\ UNCHANGED <<ndcVars, filterVars>>

\* the point query as cmd_nadac.check_ndc sees it: beside the outcomes of
\* NadacResponses, a response with an HTTP error status, whose body may or
\* may not hold a count
CheckNdcResponses(ndc) ==
    NadacResponses(ndc)
        \cup {[status |-> "http", body |-> b] : b \in {<<>>, [count |-> 1]}}

\* cmd_nadac.check_ndc, given the response: requests.get raises, or the
\* count is read from the body; the status of the response is not looked at
check_ndc(r) == r.status # "error" /\ Get(r.body, "count", 0) > 0

\* cmd_nadac, one pass of the loop: the lookup of the first NDC, if any
cna_loop ==
    /\ pc = "cna_loop"
    /\ LET drug == coll[idx]
           ndcs == Get(drug, "ndcs", <<>>)
       IN  IF ndcs = <<>>
           THEN /\ passed' = IF ~opts.filter
                             THEN Append(passed, Put(drug, "nadac_available", FALSE))
                             ELSE passed
                /\ UNCHANGED log
           ELSE \E r \in CheckNdcResponses(ndcs[1]) :
                    /\ log' = Append(log, GetEvent("nadac", ndcs[1], r))
                    /\ passed' =
                           IF ~opts.filter \/ check_ndc(r)
                           THEN Append(passed, Put(drug, "nadac_available", check_ndc(r)))
                           ELSE passed
    /\ idx' = IF idx < Len(coll) THEN idx + 1 ELSE 1
    /\ pc' = AfterPass(idx, coll, "cna_loop", "cna_dump")
    /\ UNCHANGED <<envVars, page, found, coll, resp, ret, raised>>
    /\ UNCHANGED <<ndcVars, filterVars>>

\* json.dump(results, sys.stdout)
cna_dump ==
    /\ pc = "cna_dump"
    /\ ret' = passed
    /\ pc' = "done"
    /\ UNCHANGED <<envVars, page, found, coll, idx, passed, resp, raised, log>>
    /\ UNCHANGED <<ndcVars, filterVars>>

\* ---- the stage runs: each stage, and each of the two filters of
\* dailymed_search, on a list of records; found keeps the list as it was read
SearchItems == {Item(0, k) : k \in 1..MaxSetid}

Candidates == {Candidate(d) : d \in SearchItems}

\* what the ingredients stage writes for a candidate: a record per product,
\* or the single record of the fallback
ProductRecords ==
    UNION {{ci_products(c, _parse_products(DocTwo))[k] : k \in 1..2}
               \cup {ci_fallback(c, <<>>)} : c \in Candidates}

StageInputs(p) ==
    CASE p = "cmd_ingredients" -> Candidates
      [] p \in {"cmd_filter", "cmd_nadac"} -> ProductRecords
      [] p = "cmd_ndcs" -> ProductRecords \cup Candidates
      [] OTHER -> SearchItems

StageOptions(p) ==
    CASE p = "cmd_filter" -> [excipient : {<<propylene_glycol>>}, keep : BOOLEAN]
      [] p = "cmd_nadac" -> [filter : BOOLEAN]
      [] p = "filter_by_excipients" -> [excluded : {<<propylene_glycol>>}]
      [] OTHER -> {NoValue}

\* where a run of p over drugs starts
StageEntry(p, drugs) ==
    CASE p = "cmd_ingredients" -> IF drugs = <<>> THEN "ci_dump" ELSE "ci_loop"
      [] p = "cmd_filter" -> "cf_run"
      [] p = "cmd_ndcs" -> IF drugs = <<>> THEN "cn_dump" ELSE "cn_loop"
      [] p = "cmd_nadac" -> IF drugs = <<>> THEN "cna_dump" ELSE "cna_loop"
      [] p = "filter_by_excipients" ->
             IF drugs = <<>> THEN "fbe_return" ELSE "fbe_phase1"
      [] OTHER -> IF drugs = <<>> THEN "fba_return" ELSE "fba_loop"

InitStages ==
    /\ prog \in {"cmd_ingredients", "cmd_filter", "cmd_ndcs", "cmd_nadac",
                 "filter_by_excipients", "filter_by_availability"}
    /\ opts \in StageOptions(prog)
    /\ catalogSize = 0
    /\ nadac \in IF prog \in {"cmd_nadac", "filter_by_availability"}
                 THEN NadacWorlds ELSE {{}}
    /\ coll \in SeqsOf(StageInputs(prog), 0, MaxDrugs)
    /\ found = coll
    /\ pc = StageEntry(prog, coll)
    /\ page = 0
    /\ idx = 1
    /\ passed = <<>>
    /\ resp = <<>>
    /\ ret = NoValue
    /\ raised = FALSE
    /\ log = <<>>

NextStages ==
    \/ ci_loop
    \/ ci_dump
    \/ cf_run
    \/ cn_loop
    \/ cn_dump
    \/ cna_loop
    \/ cna_dump
    \/ fbe_phase1
    \/ fbe_phase2
    \/ fbe_return
    \/ fba_loop
    \/ fba_return

(***************************************************************************)
(* The pricing lookups on their own: check_ndc_in_nadac, cmd_nadac's       *)
(* check_ndc, and get_nadac_ndcs.                                          *)
(***************************************************************************)
\* check_ndc_in_nadac(ndc)
lk_check_ndc_in_nadac ==
    /\ pc = "lk_call"
    /\ prog = "check_ndc_in_nadac"
    /\ \E r \in NadacResponses(opts.ndc) :
           /\ log' = Append(log, GetEvent("nadac", opts.ndc, r))
           /\ ret' = check_ndc_in_nadac(r)
    /\ pc' = "done"
    /\ UNCHANGED <<envVars, page, found, coll, idx, passed, resp, raised>>
    /\ UNCHANGED <<ndcVars, filterVars>>

\* check_ndc(ndc) of cmd_nadac
lk_check_ndc ==
    /\ pc = "lk_call"
    /\ prog = "check_ndc"
    /\ \E r \in CheckNdcResponses(opts.ndc) :
           /\ log' = Append(log, GetEvent("nadac", opts.ndc, r))
           /\ ret' = check_ndc(r)
    /\ pc' = "done"
    /\ UNCHANGED <<envVars, page, found, coll, idx, passed, resp, raised>>
    /\ UNCHANGED <<ndcVars, filterVars>>

\* a row of the pricing dataset, as the by-name query returns it
BulkRows == {[ndc |-> RawNdcA], [ndc |-> RawNdcB], [ndc |-> <<>>]}

\* the by-name query at an offset: it fails, or it returns up to BulkLimit
\* rows (no full page once MaxBulkPages pages have been asked for)
BulkResponses(offset) ==
    {Failed} \cup
        {Ok(rows) : rows \in SeqsOf(BulkRows, 0,
                      IF offset < (MaxBulkPages - 1) * BulkLimit
                      THEN BulkLimit ELSE BulkLimit - 1)}

\* a plausible slip: a row without an ndc adds a code as well
gnn_add_all(ndcs, results) ==
    ndcs \cup {normalize_ndc(Get(results[k], "ndc", <<>>)) : k \in 1..Len(results)}

\* for rec in results: ndcs.add(normalize_ndc(ndc)) when rec has an ndc
gnn_add(ndcs, results) ==
    ndcs \cup {normalize_ndc(results[k].ndc) :
                  k \in {j \in 1..Len(results) : Get(results[j], "ndc", <<>>) # <<>>}}

\* get_nadac_ndcs, one pass of the while loop; found is the set ndcs and
\* page the offset
gnn_iteration ==
    /\ pc = "gnn_loop"
    /\ \E r \in BulkResponses(page) :
           /\ log' = Append(log, GetEvent("nadac_bulk", page, r))
           /\ IF r.status # "ok"
              THEN pc' = "gnn_return" /\ UNCHANGED <<found, page>>
              ELSE IF r.body = <<>>
              THEN pc' = "gnn_return" /\ UNCHANGED <<found, page>>
              ELSE /\ found' = gnn_add(found, r.body)
                   /\ IF Len(r.body) < BulkLimit
                      THEN pc' = "gnn_return" /\ UNCHANGED page
                      ELSE pc' = "gnn_loop" /\ page' = page + BulkLimit
    /\ UNCHANGED <<envVars, coll, idx, passed, resp, ret, raised>>
    /\ UNCHANGED <<ndcVars, filterVars>>

\* return ndcs
gnn_return ==
    /\ pc = "gnn_return"
    /\ ret' = found
    /\ pc' = "done"
    /\ UNCHANGED <<envVars, page, found, coll, idx, passed, resp, raised, log>>
    /\ UNCHANGED <<ndcVars, filterVars>>

\* the NDCs the point lookups are asked about
LookupNdcs == {normalize_ndc(c) : c \in {RawNdcA, RawNdcB, TestCode1, TestCode2, TestCode3}}

InitPricing ==
    /\ prog \in {"check_ndc_in_nadac", "check_ndc", "get_nadac_ndcs"}
    /\ opts \in IF prog = "get_nadac_ndcs" THEN {NoValue} ELSE [ndc : LookupNdcs]
    /\ catalogSize = 0
    /\ nadac \in IF prog = "get_nadac_ndcs" THEN {{}} ELSE NadacWorlds
    /\ pc = IF prog = "get_nadac_ndcs" THEN "gnn_loop" ELSE "lk_call"
    /\ page = 0
    /\ found = IF prog = "get_nadac_ndcs" THEN {} ELSE <<>>
    /\ coll = <<>>
    /\ idx = 0
    /\ passed = <<>>
    /\ resp = <<>>
    /\ ret = NoValue
    /\ raised = FALSE
    /\ log = <<>>

NextPricing ==
    \/ lk_check_ndc_in_nadac
    \/ lk_check_ndc
    \/ gnn_iteration
    \/ gnn_return

\* the by-name lookup alone; ret is a set from the start, so that every
\* variable keeps its type along a run
InitBulk ==
    /\ prog = "get_nadac_ndcs"
    /\ opts = NoValue
    /\ catalogSize = 0
    /\ nadac = {}
    /\ pc = "gnn_loop"
    /\ page = 0
    /\ found = {}
    /\ coll = <<>>
    /\ idx = 0
    /\ passed = <<>>
    /\ resp = <<>>
    /\ ret = {}
    /\ raised = FALSE
    /\ log = <<>>

NextBulk ==
    \/ gnn_iteration
    \/ gnn_return

(***************************************************************************)
(* drug.py: the fmt stage.                                                 *)
(***************************************************************************)
\* the characters of the model's strings, in code point order
CodePoints ==
    <<" ", ",", "-", ".", "0", "1", "2", "3", "4", "5", "6", "7", "8", "9", "?">>
        \o UpperLetters \o <<"[", "]">> \o LowerLetters

Ord(c) == CHOOSE k \in 1..Len(CodePoints) : CodePoints[k] = c

\* a < b, for strings
RECURSIVE StrLess(_, _)
StrLess(a, b) ==
    IF b = <<>> THEN FALSE
    ELSE IF a = <<>> THEN TRUE
    ELSE IF Head(a) # Head(b) THEN Ord(Head(a)) < Ord(Head(b))
    ELSE StrLess(Tail(a), Tail(b))

\* sorted(S), for a collection S of distinct strings
RECURSIVE sorted(_)
sorted(S) ==
    IF S = {} THEN <<>>
    ELSE LET m == CHOOSE x \in S : \A y \in S : x = y \/ StrLess(x, y)
         IN  <<m>> \o sorted(S \ {m})

UpperChar(c) ==
    IF \E k \in 1..26 : LowerLetters[k] = c
    THEN UpperLetters[CHOOSE k \in 1..26 : LowerLetters[k] = c]
    ELSE c

\* s.upper()
upper(s) == [k \in 1..Len(s) |-> UpperChar(s[k])]

SOLUTION == <<"S", "O", "L", "U", "T", "I", "O", "N">>

LIQUID == <<"L", "I", "Q", "U", "I", "D">>

INJECTION == <<"I", "N", "J", "E", "C", "T", "I", "O", "N">>

_short_form(form) ==
    LET form_upper == upper(form)
    IN  IF IsSubstring(CAPSULE, form_upper) THEN <<"c", "a", "p">>
        ELSE IF IsSubstring(TABLET, form_upper) THEN <<"t", "a", "b">>
        ELSE IF IsSubstring(SOLUTION, form_upper) \/ IsSubstring(LIQUID, form_upper)
             THEN <<"l", "i", "q">>
        ELSE IF IsSubstring(INJECTION, form_upper) THEN <<"i", "n", "j">>
        ELSE IF form # <<>> THEN SubSeq(lower(form), 1, Min(3, Len(form)))
        ELSE <<"?">>

_short_strength(strength) ==
    IF strength = <<>> THEN <<>> ELSE StripChar(strength, " ")

DigitValue(c) == Ord(c) - Ord("0")

IsDigit(c) == c \in {"0", "1", "2", "3", "4", "5", "6", "7", "8", "9"}

\* the key of _sort_strengths: the number the string starts with, else 0
\* (strengths without a decimal point)
RECURSIVE LeadingNumber(_, _)
LeadingNumber(s, acc) ==
    IF s = <<>> \/ ~IsDigit(Head(s)) THEN acc
    ELSE LeadingNumber(Tail(s), 10 * acc + DigitValue(Head(s)))

\* _sort_strengths: the sort is stable over the order in which the set is
\* iterated, so strengths with equal keys come in any order
_sort_strengths(strengths) ==
    {f \in Orders(strengths) :
        \A a, b \in DOMAIN f :
            a < b => LeadingNumber(f[a], 0) <= LeadingNumber(f[b], 0)}

\* the key of a record's manufacturer group
fmt_mfr(d) == Get(d, "manufacturer", Unknown)

\* the abbreviated form of a record
fmt_short(d) ==
    LET form == Get(d, "form", <<>>)
    IN  IF form # <<>> THEN _short_form(form) ELSE _short_form(Get(d, "title", <<>>))

\* d.get("nadac_available"), for a flag that is absent or a boolean
fmt_flag(d) == Get(d, "nadac_available", FALSE)

\* by_mfr[mfr]["by_form"] after the loop: the strengths seen for each form
fmt_by_form(drugs, mfr) ==
    LET mine == {k \in 1..Len(drugs) : fmt_mfr(drugs[k]) = mfr}
    IN  [short \in {fmt_short(drugs[k]) : k \in mine} |->
            {_short_strength(Get(drugs[k], "strength", <<>>)) :
                k \in {j \in mine : fmt_short(drugs[j]) = short}} \ {<<>>}]

\* a plausible slip: one flag for the whole table
fmt_available_any(drugs, mfr) ==
    \E k \in 1..Len(drugs) : fmt_flag(drugs[k])

\* by_mfr[mfr]["available"] after the loop
fmt_available(drugs, mfr) ==
    \E k \in 1..Len(drugs) :
        fmt_mfr(drugs[k]) = mfr /\ fmt_flag(drugs[k])

\* the texts the parts of one row can be joined to
RECURSIVE fmt_parts(_, _)
fmt_parts(forms, by_form) ==
    IF forms = <<>> THEN {<<>>}
    ELSE LET form == Head(forms)
             strengths == by_form[form]
             part == IF strengths # {}
                     THEN {form \o <<" ">> \o join(<<",">>, f) :
                               f \in _sort_strengths(strengths)}
                     ELSE {form}
         IN  {<<p>> \o rest : p \in part, rest \in fmt_parts(Tail(forms), by_form)}

YES == <<"Y", "E", "S">>

Dash == <<"-">>

\* the rows cmd_fmt can build: one for each manufacturer, sorted
fmt_rows(drugs) ==
    LET mfr_order == sorted({fmt_mfr(drugs[k]) : k \in 1..Len(drugs)})
        row(mfr) ==
            LET by_form == fmt_by_form(drugs, mfr)
            IN  {[mfr |-> mfr,
                  forms |-> IF join(<<",", " ">>, parts) # <<>>
                            THEN join(<<",", " ">>, parts) ELSE <<"?">>,
                  avail |-> IF fmt_available(drugs, mfr) THEN YES ELSE Dash] :
                     parts \in fmt_parts(sorted(DOMAIN by_form), by_form)}
    IN  {rows \in [1..Len(mfr_order) ->
                        UNION {row(mfr_order[k]) : k \in 1..Len(mfr_order)}] :
            \A k \in 1..Len(mfr_order) : rows[k] \in row(mfr_order[k])}

yes == <<"y", "e", "s">>

no == <<"n", "o">>

\* the line of the csv format for one record, by column
fmt_csv_line(d) ==
    [manufacturer |-> Get(d, "manufacturer", <<>>),
     title |-> Get(d, "title", <<>>),
     form |-> fmt_short(d),
     strength |-> Get(d, "strength", <<>>),
     available |-> IF fmt_flag(d) THEN yes ELSE no,
     ndcs |-> LET ndcs == Get(d, "ndcs", <<>>)
              IN  join(<<";">>, SubSeq(ndcs, 1, Min(3, Len(ndcs)))),
     inactive_ingredients |-> join(<<";">>, Get(d, "inactive_ingredients", <<>>))]

\* cmd_fmt: json dumps the records, csv prints a line for each record, and
\* every other format prints the summary table
fmt_run ==
    /\ pc = "fmt_run"
    /\ CASE opts.format = "json" -> ret' = coll
         [] opts.format = "csv" -> ret' = [k \in 1..Len(coll) |-> fmt_csv_line(coll[k])]
         [] OTHER -> ret' \in fmt_rows(coll)
    /\ pc' = "done"
    /\ UNCHANGED <<envVars, page, found, coll, idx, passed, resp, raised, log>>
    /\ UNCHANGED <<ndcVars, filterVars>>

\* d with the field, when there is one
With(d, key, field) ==
    IF field = {} THEN d ELSE Put(d, key, CHOOSE v \in field : TRUE)

Mk == <<"M", "k">>

Ab == <<"A", "b">>

Strength10 == <<"1", "0", " ", "m", "g">>

Strength5 == <<"5", " ", "m", "g">>

\* records as the stages hand them on, and records written by hand: the
\* manufacturer and the availability flag may be missing
FmtRecords ==
    {With(With(Put(Put([title |-> TitleOf(2)], "form", s.form), "strength", s.strength),
               "manufacturer", m), "nadac_available", a) :
        m \in {{}, {Mk}, {Ab}},
        a \in {{}, {TRUE}, {FALSE}},
        s \in {[form |-> CAPSULE, strength |-> Strength10],
               [form |-> CAPSULE, strength |-> Strength5],
               [form |-> <<>>, strength |-> <<>>]}}

InitFmt ==
    /\ prog = "cmd_fmt"
    /\ opts \in [format : {"summary", "table", "csv", "json"}]
    /\ catalogSize = 0
    /\ nadac = {}
    /\ coll \in SeqsOf(FmtRecords, 0, MaxFmt)
    /\ found = coll
    /\ pc = "fmt_run"
    /\ page = 0
    /\ idx = 1
    /\ passed = <<>>
    /\ resp = <<>>
    /\ ret = NoValue
    /\ raised = FALSE
    /\ log = <<>>

NextFmt == fmt_run

(***************************************************************************)
(* The manufacturer of a title, as cmd_search and filter_by_excipients     *)
(* take it, over all short titles.                                         *)
(***************************************************************************)
TitleChars == {"a", "b", "[", "]"}

Titles == Strings(TitleChars, MaxTitle)

\* one entry with its title goes through the loop body of either function
title_step ==
    /\ pc = "title_step"
    /\ ret' = IF prog = "cmd_search"
              THEN Candidate(coll[1]).manufacturer
              ELSE manufacturer_of(Get(coll[1], "title", Unknown))
    /\ pc' = "done"
    /\ UNCHANGED <<envVars, page, found, coll, idx, passed, resp, raised, log>>
    /\ UNCHANGED <<ndcVars, filterVars>>

InitTitle ==
    /\ prog \in {"cmd_search", "filter_by_excipients"}
    /\ opts = NoValue
    /\ catalogSize = 0
    /\ nadac = {}
    /\ coll \in {<<[setid |-> 1, title |-> t]>> : t \in Titles}
    /\ found = coll
    /\ pc = "title_step"
    /\ page = 0
    /\ idx = 1
    /\ passed = <<>>
    /\ resp = <<>>
    /\ ret = NoValue
    /\ raised = FALSE
    /\ log = <<>>

NextTitle == title_step

(***************************************************************************)
(* check_availability: check_csv_availability.  The rows are those of a    *)
(* csv file, so they all have the columns of its header; the progress      *)
(* lines and the listing by manufacturer are prints and change nothing.    *)
(***************************************************************************)
NoSetID == <<"N", "O", " ", "(", "n", "o", " ", "S", "e", "t", "I", "D", ")">>

NoNDCs == <<"N", "O", " ", "(", "n", "o", " ", "N", "D", "C", "s", ")">>

NO == <<"N", "O">>

\* a plausible slip: only a missing column counts as no SetID
ccsv_no_setid_column(drug) == "SetID" \notin DOMAIN drug

\* not drug.get("SetID", "")
ccsv_no_setid(drug) == Get(drug, "SetID", <<>>) = <<>>

\* one pass of the loop; passed is the list available, found the list
\* unavailable
ccsv_loop ==
    /\ pc = "ccsv_loop"
    /\ LET drug == coll[idx]
           setid == Get(drug, "SetID", <<>>)
       IN  IF ccsv_no_setid(drug)
           THEN /\ found' = Append(found, Put(drug, "Available", NoSetID))
                /\ UNCHANGED <<passed, log>>
           ELSE \E r1 \in NdcsResponses :
                    LET ndcs == get_dailymed_ndcs(r1)
                        ev1 == GetEvent("ndcs", setid, r1)
                    IN  IF ndcs = <<>>
                        THEN /\ found' = Append(found, Put(drug, "Available", NoNDCs))
                             /\ log' = Append(log, ev1)
                             /\ UNCHANGED passed
                        ELSE \E r2 \in NadacResponses(ndcs[1]) :
                                 /\ log' = log \o <<ev1, GetEvent("nadac", ndcs[1], r2)>>
                                 /\ IF check_ndc_in_nadac(r2)
                                    THEN /\ passed' =
                                                Append(passed,
                                                       Put(Put(drug, "Available", YES),
                                                           "NDC", ndcs[1]))
                                         /\ UNCHANGED found
                                    ELSE /\ found' =
                                                Append(found, Put(drug, "Available", NO))
                                         /\ UNCHANGED passed
    /\ idx' = idx + 1
    /\ pc' = AfterPass(idx, coll, "ccsv_loop", "ccsv_return")
    /\ UNCHANGED <<envVars, page, coll, resp, ret, raised>>
    /\ UNCHANGED <<ndcVars, filterVars>>

\* after the loop: with an output file the header is taken from drugs[0],
\* which raises IndexError for a file without rows; else the two lists are
\* returned
ccsv_return ==
    /\ pc = "ccsv_return"
    /\ IF opts.output_file /\ coll = <<>>
       THEN raised' = TRUE /\ UNCHANGED ret
       ELSE ret' = <<passed, found>> /\ UNCHANGED raised
    /\ pc' = "done"
    /\ UNCHANGED <<envVars, page, found, coll, idx, passed, resp, log>>
    /\ UNCHANGED <<ndcVars, filterVars>>

SetIdA == <<"s", "1">>

SetIdB == <<"s", "2">>

\* the rows of a file with a SetID column (the value may be empty), and of
\* a file without one
CsvRows == {[SetID |-> s, Title |-> TitleOf(1)] : s \in {<<>>, SetIdA, SetIdB}}

CsvRowsNoColumn == {[Title |-> TitleOf(1)]}

InitCsv ==
    /\ prog = "check_csv_availability"
    /\ opts \in [output_file : BOOLEAN]
    /\ catalogSize = 0
    /\ nadac \in NadacWorlds
    /\ coll \in SeqsOf(CsvRows, 0, MaxCsvRows) \cup SeqsOf(CsvRowsNoColumn, 1, MaxCsvRows)
    /\ found = <<>>
    /\ pc = IF coll = <<>> THEN "ccsv_return" ELSE "ccsv_loop"
    /\ page = 0
    /\ idx = 1
    /\ passed = <<>>
    /\ resp = <<>>
    /\ ret = NoValue
    /\ raised = FALSE
    /\ log = <<>>

NextCsv ==
    \/ ccsv_loop
    \/ ccsv_return

(***************************************************************************)
(* The specifications: one per component, the others idle.                 *)
(***************************************************************************)
InitSpecNdc == InitNdc /\ IdleFilter /\ IdleRun

SpecNdc == InitSpecNdc /\ [][NextNdc]_vars

InitSpecFilter == IdleNdc /\ InitFilter /\ IdleRun

SpecFilter == InitSpecFilter /\ [][NextFilter]_vars

InitSpecSearch == IdleNdc /\ IdleFilter /\ InitSearch

SpecSearch == InitSpecSearch /\ [][NextSearch]_vars

InitSpecMono == IdleNdc /\ IdleFilter /\ InitMono

SpecMono == InitSpecMono /\ [][NextMono]_vars

InitSpecStages == IdleNdc /\ IdleFilter /\ InitStages

SpecStages == InitSpecStages /\ [][NextStages]_vars

InitSpecPricing == IdleNdc /\ IdleFilter /\ InitPricing

SpecPricing == InitSpecPricing /\ [][NextPricing]_vars

InitSpecBulk == IdleNdc /\ IdleFilter /\ InitBulk

\* the by-name lookup runs to its end: a call that can take a step takes it
\* (every step changes pc or adds to log)
SpecBulkFair == InitSpecBulk /\ [][NextBulk]_vars /\ WF_<<pc, log>>(NextBulk)

InitSpecFmt == IdleNdc /\ IdleFilter /\ InitFmt

SpecFmt == InitSpecFmt /\ [][NextFmt]_vars

InitSpecTitle == IdleNdc /\ IdleFilter /\ InitTitle

SpecTitle == InitSpecTitle /\ [][NextTitle]_vars

InitSpecCsv == IdleNdc /\ IdleFilter /\ InitCsv

SpecCsv == InitSpecCsv /\ [][NextCsv]_vars

(***************************************************************************)
(* Claims about the NDC normalizer (specification SpecNdc).                *)
(***************************************************************************)
\* s left-padded with "0" to width w
LeftPad(s, w) == Rep("0", Max(0, w - Len(s))) \o s

\* the positions of the dashes of c, in increasing order
DashAt(c, k) ==
    CHOOSE i \in 1..Len(c) :
        c[i] = "-" /\ Cardinality({j \in 1..i : c[j] = "-"}) = k

\* the reference of C1, written from the positions of the dashes
NdcReference(c) ==
    IF CountChar(c, "-") = 2
    THEN LET d1 == DashAt(c, 1)
             d2 == DashAt(c, 2)
         IN  LeftPad(SubSeq(c, 1, d1 - 1), 5)
                 \o LeftPad(SubSeq(c, d1 + 1, d2 - 1), 4)
                 \o LeftPad(SubSeq(c, d2 + 1, Len(c)), 2)
    ELSE LeftPad(StripChar(c, "-"), 11)

\* the pieces of c that get padded, each with its width
NdcPieces(c) ==
    IF CountChar(c, "-") = 2
    THEN LET d1 == DashAt(c, 1)
             d2 == DashAt(c, 2)
         IN  {<<SubSeq(c, 1, d1 - 1), 5>>, <<SubSeq(c, d1 + 1, d2 - 1), 4>>,
              <<SubSeq(c, d2 + 1, Len(c)), 2>>}
    ELSE {<<StripChar(c, "-"), 11>>}

\* no padded piece starts with a sign while shorter than its width
NoSignedShortPiece(c) ==
    \A pw \in NdcPieces(c) :
        ~(pw[1] # <<>> /\ Head(pw[1]) = "+" /\ Len(pw[1]) < pw[2])

Str11(a, b, c, d, e, f, g, h, i, j, k) == <<a, b, c, d, e, f, g, h, i, j, k>>

TestVectorsOk ==
    /\ ndcCode = TestCode1 =>
           ndcOut = Str11("6","5","8","6","2","0","1","9","2","0","1")
    /\ ndcCode = TestCode2 =>
           ndcOut = Str11("0","0","0","9","3","7","1","8","0","0","1")
    /\ ndcCode = TestCode3 =>
           ndcOut = Str11("1","2","3","4","5","6","7","8","9","0","1")

\* C1 as stated: on every input both normalizers return the reference
\* (segments left-padded to 5, 4, 2 when there are exactly two dashes,
\* otherwise the dash-stripped input left-padded to 11).
C1_AsStated ==
    ndcPc # "start" =>
        /\ ndcOut = NdcReference(ndcCode)
        /\ ndcOutStage = NdcReference(ndcCode)

\* C1 amended: both normalizers agree on every input, give the three test
\* vectors, and return the reference on every input none of whose padded
\* pieces starts with "+" while shorter than its width (zfill puts the
\* zeros after a leading sign).
C1_Normalize ==
    ndcPc # "start" =>
        /\ ndcOut = ndcOutStage
        /\ TestVectorsOk
        /\ NoSignedShortPiece(ndcCode) =>
               /\ ndcOut = NdcReference(ndcCode)
               /\ ndcOutStage = NdcReference(ndcCode)

C1_Witness ==
    /\ ndcPc = "done"
    /\ ndcCode = TestCode1
    /\ ndcOut = Str11("6","5","8","6","2","0","1","9","2","0","1")
    /\ ndcOutStage = ndcOut

Digits == {"0", "1", "2", "3", "4", "5", "6", "7", "8", "9"}

IsNormalized(s) == Len(s) = 11 /\ \A i \in 1..Len(s) : s[i] \in Digits

\* C2: normalization is idempotent: an 11-digit dashless string is returned
\* unchanged, and normalizing a result again returns the same result.
C2_Idempotent ==
    /\ (ndcPc # "start" /\ IsNormalized(ndcCode)) =>
           (ndcOut = ndcCode /\ ndcOutStage = ndcCode)
    /\ ndcPc = "again" =>
           (ndcTwice = ndcOut /\ ndcTwiceStage = ndcOutStage)

C2_Witness ==
    /\ ndcPc = "again"
    /\ IsNormalized(ndcCode)
    /\ ndcOut = ndcCode
    /\ ndcTwice = ndcCode

\* C3 as stated: the result has exactly 11 characters for every input.
C3_AsStated ==
    ndcPc # "start" => (Len(ndcOut) = 11 /\ Len(ndcOutStage) = 11)

(***************************************************************************)
(* Claims about the filter stage (specification SpecFilter).               *)
(***************************************************************************)
\* the number of positions of seq that hold x
Count(seq, x) == Cardinality({i \in 1..Len(seq) : seq[i] = x})

Range(seq) == {seq[i] : i \in 1..Len(seq)}

FilterMatch(d) == has_excipient(d, fExcipient)

\* C4: without --keep the filter stage writes exactly the input records with
\* no match, with --keep exactly those with a match; every input record is
\* in exactly one of the two outputs, as often as it is in the input.
C4_FilterModes ==
    /\ "default" \in fRan =>
           fOutDefault = SelectSeq(fDrugs, LAMBDA d : ~FilterMatch(d))
    /\ "keep" \in fRan =>
           fOutKeep = SelectSeq(fDrugs, LAMBDA d : FilterMatch(d))
    /\ fRan = {"default", "keep"} =>
           /\ Range(fOutDefault) \cap Range(fOutKeep) = {}
           /\ \A d \in Range(fDrugs) :
                  Count(fOutDefault, d) + Count(fOutKeep, d) = Count(fDrugs, d)

C4_Witness ==
    /\ fRan = {"default", "keep"}
    /\ Len(fDrugs) = 2
    /\ Len(fOutDefault) = 1
    /\ Len(fOutKeep) = 1
    /\ fExcipient = <<propylene_glycol>>

\* some single ingredient name of d contains an excluded name, case-folded
PerIngredientMatch(d, excipient) ==
    LET names == Get(d, "inactive_ingredients", <<>>)
    IN  \E k \in 1..Len(excipient) : \E n \in 1..Len(names) :
            IsSubstring(lower(excipient[k]), lower(names[n]))

\* C5 as stated: the filter stage excludes a record if and only if one of
\* its individual inactive-ingredient names contains an excluded phrase,
\* case-folded, as a substring (stated here for non-empty phrases only).
C5_AsStated ==
    ("default" \in fRan /\ \A k \in 1..Len(fExcipient) : fExcipient[k] # <<>>) =>
        \A i \in 1..Len(fDrugs) :
            (fDrugs[i] \notin Range(fOutDefault))
                <=> PerIngredientMatch(fDrugs[i], fExcipient)

(***************************************************************************)
(* Claims about the catalog search (specification SpecSearch).             *)
(***************************************************************************)
IsSearchGet(e) == e.ev = "get" /\ e.svc = "search"

\* the page requests of the run, in order
SearchGets == SelectSeq(log, IsSearchGet)

\* the entries of the answered pages, in the order they were sent
RECURSIVE DataOf(_)
DataOf(gets) ==
    IF gets = <<>> THEN <<>> ELSE Head(gets).resp.data \o DataOf(Tail(gets))

\* the entries as the entry point hands them on
Shown(items) ==
    IF prog = "cmd_search" THEN [k \in 1..Len(items) |-> Candidate(items[k])]
    ELSE items

Uncapped == prog = "search_drugs" \/ (prog = "cmd_search" /\ opts.limit = 0)

\* every page answered so far reports total_pages = T and has entries
ConstantCatalog(T) ==
    \A k \in 1..Len(SearchGets) :
        LET r == SearchGets[k].resp
        IN  /\ r.status = "ok"
            /\ r.data # <<>>
            /\ r.metadata = [total_pages |-> T]

\* pages 1, 2, ..., in increasing order, each once
PagesInOrder == \A k \in 1..Len(SearchGets) : SearchGets[k].key = k

\* C8, first part: against a catalog of T >= 1 non-empty pages an uncapped
\* search requests pages 1..T in order, each once, none beyond T, and
\* returns the page results concatenated in page order.
C8_ConstantCatalog ==
    Uncapped =>
        /\ PagesInOrder
        /\ \A T \in 1..MaxPages :
               ConstantCatalog(T) =>
                   /\ Len(SearchGets) <= T
                   /\ pc # "raised"
                   /\ (pc = "done" =>
                          /\ Len(SearchGets) = T
                          /\ ret = Shown(DataOf(SearchGets)))

\* C8, second part: no page is requested after a page with no results
C8_StopsAtEmptyPage ==
    Uncapped =>
        \A k \in 1..(Len(SearchGets) - 1) :
            SearchGets[k].resp.status = "ok" => SearchGets[k].resp.data # <<>>

\* C8 as stated: both parts, for search_drugs and for the search stage.
C8_AsStated == C8_ConstantCatalog /\ C8_StopsAtEmptyPage

\* C10 as stated: two page requests never follow each other without the
\* pacing delay in between, in search_drugs and in the search stage.
C10_AsStated ==
    \A k \in 1..(Len(log) - 1) : ~(IsSearchGet(log[k]) /\ IsSearchGet(log[k + 1]))

\* the first n elements of seq (all of it when it is shorter)
Take(seq, n) == SubSeq(seq, 1, Min(n, Len(seq)))

\* the pages answered before the k-th request hold fewer than n entries
FewerBefore(k, n) == Len(DataOf(SubSeq(SearchGets, 1, k - 1))) < n

\* C9: with --limit L > 0 the search stage writes the first min(L, available)
\* candidates in server order, at most L, and requests no page after the
\* page on which L was reached; with L = 0 it writes all of them.
C9_ResultCap ==
    prog = "cmd_search" =>
        /\ opts.limit > 0 =>
               /\ Len(found) <= opts.limit
               /\ \A k \in 1..Len(SearchGets) : FewerBefore(k, opts.limit)
               /\ pc = "done" =>
                      /\ ret = Take(Shown(DataOf(SearchGets)), opts.limit)
                      /\ Len(ret) = Min(opts.limit, Len(DataOf(SearchGets)))
        /\ (opts.limit = 0 /\ pc = "done") => ret = Shown(DataOf(SearchGets))

\* the cap is reached in the middle of the second page
C9_Witness ==
    /\ prog = "cmd_search"
    /\ pc = "done"
    /\ opts.limit = 3
    /\ Len(SearchGets) = 2
    /\ Len(DataOf(SearchGets)) = 4
    /\ Len(ret) = 3
    /\ SearchGets[2].resp.metadata = [total_pages |-> 3]

(***************************************************************************)
(* Claims about a search without results.                                  *)
(***************************************************************************)
\* the first search request was answered with zero total pages and no results
ZeroPages ==
    /\ log # <<>>
    /\ log[1].ev = "get"
    /\ log[1].svc = "search"
    /\ log[1].resp.status = "ok"
    /\ log[1].resp.data = <<>>
    /\ Get(log[1].resp.metadata, "total_pages", 1) = 0

\* C7: when the first search request is answered with zero total pages and
\* no results, search_drugs, cmd_search and search_and_filter make exactly
\* that one request (no further search page, no delay, no label, packaging,
\* NDC or pricing request), raise nothing, and what they return is empty.
C7_ZeroPages ==
    ZeroPages =>
        /\ Len(log) = 1
        /\ ~raised
        /\ found = <<>>
        /\ pc \in {"sd_return", "cs_dump", "done"}
        /\ pc = "done" => ret = <<>>

\* search_and_filter has returned after a search answered with zero pages
C7_Witness ==
    /\ ZeroPages
    /\ prog = "search_and_filter"
    /\ pc = "done"
    /\ ret = <<>>

(***************************************************************************)
(* Claims about the order of the records (specification SpecStages).       *)
(***************************************************************************)
\* the fields a stage may write anew in a record it hands on
Rewritten == IF prog = "cmd_ndcs" THEN {"ndcs"} ELSE {}

\* record o is input record d, possibly annotated
DerivedFrom(o, d) ==
    \A k \in DOMAIN d \ Rewritten : k \in DOMAIN o /\ o[k] = d[k]

\* out is a subsequence of in
RECURSIVE IsSubsequence(_, _)
IsSubsequence(out, in) ==
    IF out = <<>> THEN TRUE
    ELSE IF in = <<>> THEN FALSE
    ELSE IF DerivedFrom(Head(out), Head(in))
    THEN IsSubsequence(Tail(out), Tail(in))
    ELSE IsSubsequence(out, Tail(in))

\* out holds the same records as in, in the same positions
SamePositions(out, in) ==
    /\ Len(out) = Len(in)
    /\ \A k \in 1..Len(in) : DerivedFrom(out[k], in[k])

\* out is a block of records from in[1], then a block from in[2], and so on
RECURSIVE IsBlockwise(_, _)
IsBlockwise(out, in) ==
    IF in = <<>> THEN out = <<>>
    ELSE \E n \in 0..Len(out) :
             /\ \A k \in 1..n : DerivedFrom(out[k], Head(in))
             /\ IsBlockwise(SubSeq(out, n + 1, Len(out)), Tail(in))

\* C6: every stage keeps the order of its input: what the filter stage, the
\* nadac stage (with or without --filter), filter_by_excipients and
\* filter_by_availability return is a subsequence of the input; the ndcs
\* stage returns the same records in the same positions; the ingredients
\* stage writes the records of input record i before those of input record j
\* whenever i < j.
C6_OrderPreserved ==
    pc = "done" =>
        CASE prog \in {"cmd_filter", "cmd_nadac", "filter_by_excipients",
                       "filter_by_availability"} -> IsSubsequence(ret, found)
          [] prog = "cmd_ndcs" -> SamePositions(ret, found)
          [] prog = "cmd_ingredients" -> IsBlockwise(ret, found)
          [] OTHER -> TRUE

\* the ingredients stage has written two records for the first of two
\* different drugs and one for the second
C6_Witness ==
    /\ pc = "done"
    /\ prog = "cmd_ingredients"
    /\ Len(found) = 2
    /\ found[1].setid # found[2].setid
    /\ Len(ret) = 3
    /\ ret[2].setid = found[1].setid
    /\ ret[3].setid = found[2].setid

(***************************************************************************)
(* Claims about failures of the catalog search (specification SpecSearch). *)
(***************************************************************************)
\* C11: a page request that fails (transport or HTTP status), on the first
\* page or on a later one, is the last thing the search does: no request and
\* no delay follows it, so it is not retried and no later page is asked for,
\* the error is propagated, and nothing is returned or written.
C11_FailureAborts ==
    /\ \A k \in 1..Len(log) :
           (IsSearchGet(log[k]) /\ log[k].resp.status # "ok") =>
               /\ k = Len(log)
               /\ pc = "raised"
    /\ pc = "raised" <=> raised
    /\ raised => ret = NoValue /\ log[Len(log)].resp.status # "ok"

\* the second page request of the search stage failed with an HTTP error
\* status after the first page had brought entries
C11_Witness ==
    /\ prog = "cmd_search"
    /\ raised
    /\ Len(SearchGets) = 2
    /\ found # <<>>
    /\ log[Len(log)].resp.status = "http"

(***************************************************************************)
(* Claims about the pricing lookups (specification SpecPricing).           *)
(***************************************************************************)
PointLookup == prog \in {"check_ndc_in_nadac", "check_ndc"}

\* the request succeeded and the count it reports is greater than zero
SucceededWithMatches(r) == r.status = "ok" /\ Get(r.body, "count", 0) > 0

\* C12 as stated: the single-NDC lookup, in dailymed_search and in the nadac
\* stage, makes exactly one request, raises nothing, and returns true if and
\* only if that request succeeded and reports a count greater than zero (so
\* it returns false when the request fails).
C12_AsStated ==
    (PointLookup /\ pc = "done") =>
        /\ Len(log) = 1
        /\ ~raised
        /\ ret = SucceededWithMatches(log[1].resp)

\* C13 as stated: when any request of the by-name lookup fails, on the first
\* page or on a later one, the lookup returns the empty set.
C13_AsStated ==
    (prog = "get_nadac_ndcs" /\ pc = "done"
         /\ \E k \in 1..Len(log) : log[k].resp.status # "ok") =>
        ret = {}

(***************************************************************************)
(* Claims about availability (specification SpecStages).                   *)
(***************************************************************************)
\* at least one of the NDCs is in the pricing dataset
AnyListed(ndcs) == \E k \in 1..Len(ndcs) : ndcs[k] \in nadac

\* every pricing lookup of the run got its answer
LookupsAnswered ==
    \A k \in 1..Len(log) : log[k].svc = "nadac" => log[k].resp.status = "ok"

\* the NDC requests of the run, in order
IsNdcsGet(e) == e.ev = "get" /\ e.svc = "ndcs"

NdcsGets == SelectSeq(log, IsNdcsGet)

\* the positions of the input whose record has a listed NDC
ListedByStage == {k \in 1..Len(found) : AnyListed(Get(found[k], "ndcs", <<>>))}

ListedByFilter ==
    {k \in 1..Len(NdcsGets) : AnyListed(get_dailymed_ndcs(NdcsGets[k].resp))}

\* C14 as stated, for runs in which every pricing lookup is answered: the
\* nadac stage sets nadac_available, and with --filter keeps a record, and
\* filter_by_availability keeps a record, exactly when at least one of the
\* record's NDCs is in the pricing dataset.
C14_AsStated ==
    (pc = "done" /\ LookupsAnswered) =>
        /\ (prog = "cmd_nadac" /\ ~opts.filter) =>
               \A k \in 1..Len(ret) :
                   ret[k].nadac_available = (k \in ListedByStage)
        /\ (prog = "cmd_nadac" /\ opts.filter) =>
               /\ Len(ret) = Cardinality(ListedByStage)
               /\ \A k \in 1..Len(ret) : ret[k].nadac_available
        /\ prog = "filter_by_availability" =>
               Len(ret) = Cardinality(ListedByFilter)

(***************************************************************************)
(* Claims about the extracted ingredient lists (specification SpecStages). *)
(***************************************************************************)
\* no two entries of names are equal under case-folding
NoCaseDuplicates(names) ==
    \A a, b \in 1..Len(names) : a # b => lower(names[a]) # lower(names[b])

\* the names of a list of {"name": ...} entries
NamesOf(ingredients) == [k \in 1..Len(ingredients) |-> ingredients[k].name]

\* C15 as stated: no inactive-ingredient list that extraction produces holds
\* two entries equal under case-folding: not in a record of the ingredients
\* stage, from the products or from the fallback, and not in a list of
\* parse_inactive_ingredients_from_xml (here as filter_by_excipients keeps it).
C15_AsStated ==
    pc = "done" =>
        /\ prog = "cmd_ingredients" =>
               \A k \in 1..Len(ret) : NoCaseDuplicates(ret[k].inactive_ingredients)
        /\ prog = "filter_by_excipients" =>
               \A k \in 1..Len(ret) :
                   NoCaseDuplicates(NamesOf(ret[k]._inactive_ingredients))

(***************************************************************************)
(* Claims about the product fragments (specification SpecStages).          *)
(***************************************************************************)
HasProduct(u) == u.hasProduct

\* the manufactured-product units of a document, in document order
ProductUnits(doc) == SelectSeq(doc.units, HasProduct)

\* the k-th label request was answered with a well-formed document that
\* has product units
Structured(e) ==
    /\ e.resp.status = "ok"
    /\ e.resp.body.wellFormed
    /\ ProductUnits(e.resp.body) # <<>>

\* the records the ingredients stage owes to the drug of label request e
BlockLen(e) == IF Structured(e) THEN Len(ProductUnits(e.resp.body)) ELSE 1

\* the records written for the drugs before the k-th
RECURSIVE BlockStart(_)
BlockStart(k) == IF k = 1 THEN 0 ELSE BlockStart(k - 1) + BlockLen(log[k - 1])

\* the trimmed names of the inactive ingredients of a unit
IactNames(u) ==
    {strip(u.ingredients[n].name) :
        n \in {m \in 1..Len(u.ingredients) :
                  u.ingredients[m].classCode = "IACT"
                      /\ u.ingredients[m].name # NoValue}}

\* the strengths the numerators of a unit can give
Strengths(u) ==
    {u.numerators[n].value \o <<" ">> \o u.numerators[n].unit :
        n \in 1..Len(u.numerators)}

\* record rec is the fragment of unit u alone
FragmentOf(rec, u) ==
    /\ rec.form = u.form
    /\ rec.strength \in Strengths(u) \cup {<<>>}
    /\ Range(rec.inactive_ingredients) \subseteq IactNames(u)
    /\ \A n \in IactNames(u) :
           \E a \in 1..Len(rec.inactive_ingredients) :
               lower(rec.inactive_ingredients[a]) = lower(n)

\* C16: a well-formed document with n product units gives exactly n
\* records, in document order, with product_index 0, 1, ..., n-1 counted
\* anew for each document, and the form, strength and inactive ingredients
\* of each come from its own unit.
C16_Fragments ==
    (prog = "cmd_ingredients" /\ pc = "done") =>
        /\ Len(ret) = BlockStart(Len(log) + 1)
        /\ \A k \in 1..Len(log) :
               Structured(log[k]) =>
                   LET units == ProductUnits(log[k].resp.body)
                   IN  \A j \in 1..Len(units) :
                           LET rec == ret[BlockStart(k) + j]
                           IN  /\ rec.setid = found[k].setid
                               /\ rec.product_index = j - 1
                               /\ FragmentOf(rec, units[j])

\* two drugs, each with a document of two products: four records, numbered
\* 0, 1, 0, 1
C16_Witness ==
    /\ prog = "cmd_ingredients"
    /\ pc = "done"
    /\ Len(log) = 2
    /\ Structured(log[1]) /\ Len(ProductUnits(log[1].resp.body)) = 2
    /\ Structured(log[2]) /\ Len(ProductUnits(log[2].resp.body)) = 2
    /\ Len(ret) = 4
    /\ ret[4].product_index = 1
    /\ ret[4].form # ret[3].form

(***************************************************************************)
(* Claims about the sentence of a label without ingredient tags            *)
(* (specification SpecStages).                                             *)
(***************************************************************************)
CornStarch == <<"C", "o", "r", "n", " ", "S", "t", "a", "r", "c", "h">>

\* the names of "Inactive ingredients include Lactose, Corn Starch and Talc"
SentenceNames == <<Lactose, CornStarch, Talc>>

\* the k-th request of the run was answered with the document of the sentence
SentenceAnswer(k) ==
    /\ log[k].svc = "label"
    /\ log[k].resp.status = "ok"
    /\ log[k].resp.body = DocSentence

\* C17 as stated: from a document without ingredient tags that holds the
\* sentence "Inactive ingredients include Lactose, Corn Starch and Talc" the
\* extractor of the monolithic mode (here in filter_by_excipients) and the
\* ingredients stage both take exactly the names Lactose, Corn Starch, Talc.
C17_AsStated ==
    pc = "done" =>
        /\ prog = "filter_by_excipients" =>
               \A k \in 1..Len(log) :
                   SentenceAnswer(k) =>
                       \E j \in 1..Len(ret) :
                           /\ ret[j].setid = log[k].key
                           /\ NamesOf(ret[j]._inactive_ingredients) = SentenceNames
        /\ prog = "cmd_ingredients" =>
               \A k \in 1..Len(log) :
                   SentenceAnswer(k) =>
                       ret[BlockStart(k) + 1].inactive_ingredients = SentenceNames

(***************************************************************************)
(* Claims about a failed label request (specification SpecStages).         *)
(***************************************************************************)
\* the k-th request of the run is a label request that failed
LabelFailed(k) == log[k].svc = "label" /\ log[k].resp.status # "ok"

\* C18 as stated: a label request that fails (transport error or HTTP error
\* status) never fails the run and gives empty data for its candidate:
\* get_inactive_ingredients returns the empty list (here as
\* filter_by_excipients keeps it), and the ingredients stage, wherever the
\* candidate stands in the input and whatever the earlier requests brought,
\* writes for it a record with empty inactive_ingredients and empty ndcs.
C18_AsStated ==
    /\ prog \in {"cmd_ingredients", "filter_by_excipients"} => ~raised
    /\ pc = "done" =>
           /\ prog = "filter_by_excipients" =>
                  \A k \in 1..Len(coll) :
                      LabelFailed(k) =>
                          \E j \in 1..Len(ret) :
                              /\ ret[j].setid = log[k].key
                              /\ ret[j]._inactive_ingredients = <<>>
           /\ prog = "cmd_ingredients" =>
                  \A k \in 1..Len(log) :
                      LabelFailed(k) =>
                          LET rec == ret[BlockStart(k) + 1]
                          IN  /\ BlockLen(log[k]) = 1
                              /\ rec.setid = found[k].setid
                              /\ rec.inactive_ingredients = <<>>
                              /\ rec.ndcs = <<>>

(***************************************************************************)
(* Claims about the two phases of filter_by_excipients (specification      *)
(* SpecStages).                                                            *)
(***************************************************************************)
IsLabelGet(e) == e.ev = "get" /\ e.svc = "label"

IsPackagingGet(e) == e.ev = "get" /\ e.svc = "packaging"

LabelGets == SelectSeq(log, IsLabelGet)

PackagingGets == SelectSeq(log, IsPackagingGet)

\* the answer to a label request names an excluded excipient
AnswerExcluded(e) ==
    /\ e.resp.status = "ok"
    /\ \E n \in Range(NamesOf(get_inactive_ingredients(e.resp))) :
           \E x \in Range(opts.excluded) : IsSubstring(lower(x), lower(n))

\* the positions of the input whose candidate passes the filter
Passing == {k \in 1..Len(LabelGets) : ~AnswerExcluded(LabelGets[k])}

\* C19: filter_by_excipients makes exactly one label request per input
\* candidate, in input order; it makes a packaging request only for the
\* candidates that passed, exactly one each and none for an excluded
\* candidate; and every packaging request comes after all label requests.
C19_TwoPhase ==
    prog = "filter_by_excipients" =>
        /\ Len(LabelGets) <= Len(coll)
        /\ \A k \in 1..Len(LabelGets) : LabelGets[k].key = coll[k].setid
        /\ \A a, b \in 1..Len(log) :
               (IsPackagingGet(log[a]) /\ IsLabelGet(log[b])) => b < a
        /\ PackagingGets # <<>> => Len(LabelGets) = Len(coll)
        /\ Len(PackagingGets) <= Cardinality(Passing)
        /\ \A j \in 1..Len(PackagingGets) : PackagingGets[j].key = passed[j].setid
        /\ pc = "done" =>
               /\ Len(LabelGets) = Len(coll)
               /\ Len(PackagingGets) = Cardinality(Passing)
               /\ Len(ret) = Cardinality(Passing)

\* of two different candidates the first was excluded and the second passed:
\* two label requests, then one packaging request, for the second
C19_Witness ==
    /\ prog = "filter_by_excipients"
    /\ pc = "done"
    /\ Len(coll) = 2
    /\ coll[1].setid # coll[2].setid
    /\ AnswerExcluded(log[1])
    /\ Len(log) = 3
    /\ IsPackagingGet(log[3])
    /\ log[3].key = coll[2].setid

(***************************************************************************)
(* Claims about the ndcs stage (specification SpecStages).                 *)
(***************************************************************************)
\* the input records that have an ndcs field
HasNdcsField == {k \in 1..Len(found) : "ndcs" \in DOMAIN found[k]}

\* the input records whose ndcs field holds codes
HasCodes == {k \in 1..Len(found) : Get(found[k], "ndcs", <<>>) # <<>>}

\* the position among the requests of the request for input record k, when
\* the records of Skipped get none
RequestOf(k, Skipped) == Cardinality({n \in 1..k : n \notin Skipped})

\* the normalized codes of the entries of a response body that have one
RECURSIVE CodesOf(_)
CodesOf(body) ==
    IF body = <<>> THEN <<>>
    ELSE (IF "ndc" \in DOMAIN Head(body) /\ Head(body).ndc # <<>>
          THEN <<normalize_ndc(Head(body).ndc)>> ELSE <<>>) \o CodesOf(Tail(body))

\* the run is over, the records of Skipped were handed on unchanged without
\* a request, and every other record got one request and the ndcs that
\* Fetched gives for the response
NdcsStageDone(Skipped, Fetched(_)) ==
    /\ Len(ret) = Len(found)
    /\ Len(NdcsGets) = Len(found) - Cardinality(Skipped)
    /\ \A k \in 1..Len(found) :
           IF k \in Skipped THEN ret[k] = found[k]
           ELSE LET e == NdcsGets[RequestOf(k, Skipped)]
                IN  /\ e.key = found[k].setid
                    /\ ret[k] = Put(found[k], "ndcs", Fetched(e.resp))

\* the codes returned, or none if the request failed
FetchedAsStated(r) == IF r.status = "ok" THEN CodesOf(r.body) ELSE <<>>

\* the codes of the body of any response that arrived, or none if the
\* request raised
FetchedFromBody(r) == IF r.status = "error" THEN <<>> ELSE CodesOf(r.body)

\* C20 as stated: the ndcs stage makes no request for a record that has its
\* ndcs field set by an earlier stage and hands it on unchanged; every
\* other record gets exactly one request, and its ndcs becomes the
\* normalized codes returned, or the empty list if the request fails.
C20_AsStated ==
    (prog = "cmd_ndcs" /\ pc = "done") => NdcsStageDone(HasNdcsField, FetchedAsStated)

\* what the ndcs stage does: it makes no request for a record whose ndcs
\* field holds at least one code and hands it on unchanged; every other
\* record, without the field or with an empty one, gets exactly one
\* request, in input order, and its ndcs becomes the normalized codes of
\* the response body, whatever the HTTP status, or the empty list if the
\* request raises.
SkipsPopulated ==
    prog = "cmd_ndcs" =>
        /\ Len(NdcsGets) <= Len(found) - Cardinality(HasCodes)
        /\ pc = "done" => NdcsStageDone(HasCodes, FetchedFromBody)

\* a record with codes was skipped, and the record after it, whose ndcs
\* field was set to the empty list, got a request that brought codes
RefetchedEmpty ==
    /\ prog = "cmd_ndcs"
    /\ pc = "done"
    /\ Len(found) = 2
    /\ HasCodes = {1}
    /\ HasNdcsField = {1, 2}
    /\ Len(log) = 1
    /\ ret[2].ndcs # <<>>

(***************************************************************************)
(* C21: the summary of cmd_fmt has exactly one row for each distinct       *)
(* manufacturer of the input records (a record without the field counts    *)
(* under "Unknown"), and a row's flag is YES exactly when some input       *)
(* record of that manufacturer has nadac_available true; so the            *)
(* availability of a record never shows in another manufacturer's row.     *)
(***************************************************************************)
SummaryDone ==
    prog = "cmd_fmt" /\ pc = "done" /\ opts.format \notin {"json", "csv"}

ManufacturerOf(d) ==
    IF "manufacturer" \in DOMAIN d THEN d.manufacturer ELSE Unknown

MarkedAvailable(d) ==
    "nadac_available" \in DOMAIN d /\ d.nadac_available = TRUE

TitleDone == prog \in {"cmd_search", "filter_by_excipients"} /\ pc = "done" /\ opts = NoValue

\* title[a..b] is a bracketed group: "[", a text without brackets, "]"
IsGroup(t, a, b) ==
    /\ a + 2 <= b
    /\ t[a] = "["
    /\ t[b] = "]"
    /\ \A m \in (a + 1)..(b - 1) : t[m] \notin {"[", "]"}

HasGroup(t) == \E a, b \in 1..Len(t) : IsGroup(t, a, b)

EndsWithGroup(t) == \E a \in 1..Len(t) : IsGroup(t, a, Len(t))

SuffixText(t) ==
    LET a == CHOOSE k \in 1..Len(t) : IsGroup(t, k, Len(t))
    IN  SubSeq(t, a + 1, Len(t) - 1)

\* every bracket of the title belongs to a group
WellFormed(t) ==
    \A k \in 1..Len(t) :
        /\ t[k] = "[" => \E b \in 1..Len(t) : IsGroup(t, k, b)
        /\ t[k] = "]" => \E a \in 1..Len(t) : IsGroup(t, a, k)

C22_AsStated ==
    TitleDone /\ WellFormed(coll[1].title) =>
        LET t == coll[1].title
        IN  /\ EndsWithGroup(t) => ret = SuffixText(t)
            /\ ret = Unknown <=> ~HasGroup(t)

(***************************************************************************)
(* C23: check_csv_availability returns every row in exactly one of the     *)
(* two lists, each in input order.  A row without SetID is marked          *)
(* "NO (no SetID)" and causes no request; a row whose NDC list comes back  *)
(* empty is marked "NO (no NDCs)" and causes no pricing request; a row is  *)
(* marked "YES" only when its pricing lookup succeeded with a match; and   *)
(* nothing is raised on the way.                                           *)
(***************************************************************************)
CsvRun == prog = "check_csv_availability"

\* the row as it was read
AsRead(d) == [k \in DOMAIN d \ {"Available", "NDC"} |-> d[k]]

\* the rows of seq at the positions of S, in order
RECURSIVE Pick(_, _, _)
Pick(seq, S, k) ==
    IF k > Len(seq) THEN <<>>
    ELSE (IF k \in S THEN <<seq[k]>> ELSE <<>>) \o Pick(seq, S, k + 1)

\* available and unavailable split the first n rows, keeping their order
SplitsInOrder(available, unavailable, n) ==
    \E S \in SUBSET (1..n) :
        /\ [k \in 1..Len(available) |-> AsRead(available[k])] = Pick(coll, S, 1)
        /\ [k \in 1..Len(unavailable) |-> AsRead(unavailable[k])]
               = Pick(coll, (1..n) \ S, 1)

Marked(seq, mark) == {k \in 1..Len(seq) : seq[k].Available = mark}

GetsOf(svc) == {k \in 1..Len(log) : log[k].ev = "get" /\ log[k].svc = svc}

C23_CsvMarks ==
    CsvRun =>
        LET n == Len(passed) + Len(found)
            rows == SubSeq(coll, 1, n)
            empty == {k \in 1..n : Get(coll[k], "SetID", <<>>) = <<>>}
        IN  /\ n = idx - 1
            /\ SplitsInOrder(passed, found, n)
            /\ Marked(passed, YES) = 1..Len(passed)
            /\ \A k \in 1..Len(found) : found[k].Available \in {NoSetID, NoNDCs, NO}
            \* the rows without SetID, and only they, are marked so, and the
            \* other rows made one request for the NDC list each
            /\ \A k \in 1..Len(found) :
                   found[k].Available = NoSetID <=> Get(found[k], "SetID", <<>>) = <<>>
            /\ Cardinality(GetsOf("ndcs")) = n - Cardinality(empty)
            \* an empty NDC list gives the mark, and no pricing request
            /\ Cardinality(Marked(found, NoNDCs))
                   = Cardinality({k \in GetsOf("ndcs") : get_dailymed_ndcs(log[k].resp) = <<>>})
            /\ \A k \in GetsOf("nadac") :
                   /\ k > 1
                   /\ log[k - 1].svc = "ndcs"
                   /\ get_dailymed_ndcs(log[k - 1].resp) # <<>>
                   /\ log[k].key = get_dailymed_ndcs(log[k - 1].resp)[1]
            /\ Cardinality(GetsOf("nadac")) = Len(passed) + Cardinality(Marked(found, NO))
            \* YES needs a pricing lookup that succeeded and found the NDC
            /\ Len(passed)
                   = Cardinality({k \in GetsOf("nadac") :
                                      /\ log[k].resp.status = "ok"
                                      /\ log[k].resp.body.count > 0})
            /\ ~raised \/ (coll = <<>> /\ opts.output_file)
            /\ pc = "done" /\ ~raised => ret = <<passed, found>> /\ n = Len(coll)

\* a finished run with a row of each kind: available, without SetID, and
\* without NDCs
C23_Witness ==
    /\ CsvRun
    /\ pc = "done"
    /\ ~raised
    /\ Len(ret[1]) = 1
    /\ Marked(ret[2], NoSetID) # {}
    /\ Marked(ret[2], NoNDCs) # {}

(***************************************************************************)
(* C24: the by-name pricing lookup asks for the offsets 0, limit,          *)
(* 2 * limit, ... in this order and each once, goes on exactly while the   *)
(* pages are full, and so stops at the first page that is empty or short   *)
(* (or at a failed request); when no request failed it returns exactly the *)
(* normalized codes of the rows of all pages that have a non-empty ndc;    *)
(* and, the dataset being finite, every run of it ends.                    *)
(***************************************************************************)
BulkRun == prog = "get_nadac_ndcs"

FullPage(r) == r.status = "ok" /\ Len(r.body) = BulkLimit

\* the codes of the rows of the pages received
CodesServed ==
    UNION {{normalize_ndc(log[k].resp.body[j].ndc) :
               j \in {m \in 1..Len(log[k].resp.body) : log[k].resp.body[m].ndc # <<>>}} :
           k \in {m \in 1..Len(log) : log[m].resp.status = "ok"}}

C24_Pages ==
    BulkRun =>
        /\ \A k \in 1..Len(log) :
               /\ log[k].ev = "get"
               /\ log[k].svc = "nadac_bulk"
               /\ log[k].key = (k - 1) * BulkLimit
        /\ \A k \in 1..(Len(log) - 1) : FullPage(log[k].resp)
        /\ pc = "gnn_loop" <=> (log = <<>> \/ FullPage(log[Len(log)].resp))
        /\ (pc = "done" /\ \A k \in 1..Len(log) : log[k].resp.status = "ok")
               => ret = CodesServed

C24_BulkLookup == []C24_Pages /\ <>(BulkRun => pc = "done")

\* a finished lookup of two pages, the first full and the second short but
\* not empty, with a row whose ndc is empty among them
C24_Witness ==
    /\ BulkRun
    /\ pc = "done"
    /\ Len(log) = 2
    /\ log[2].resp.status = "ok"
    /\ log[2].resp.body # <<>>
    /\ \E k \in 1..2 : \E j \in 1..Len(log[k].resp.body) : log[k].resp.body[j].ndc = <<>>
    /\ ret # {}

(***************************************************************************)
(* C25: the match test of filter_by_excipients and that of cmd_filter give *)
(* the same verdict on the same ingredient names and the same excluded     *)
(* names, whatever they are (no ingredients, an empty excluded name, an    *)
(* excluded phrase with a space).                                          *)
(***************************************************************************)
\* the ingredient names of a record of the filter stage, as the list of
\* ingredients that get_inactive_ingredients gives filter_by_excipients
AsIngredients(d) ==
    LET names == Get(d, "inactive_ingredients", <<>>)
    IN  [k \in 1..Len(names) |-> [name |-> names[k]]]

C25_AsStated ==
    "default" \in fRan =>
        \A i \in 1..Len(fDrugs) :
            (fDrugs[i] \notin Range(fOutDefault))
                <=> has_excluded(AsIngredients(fDrugs[i]), lower_all(fExcipient))

(***************************************************************************)
(* C26: filter_by_excipients drops a candidate only when its label request *)
(* succeeded and one of the ingredient names it brought contains an        *)
(* excluded name; a candidate whose label request failed is kept, with no  *)
(* ingredients, whatever the excluded names are.                           *)
(***************************************************************************)
\* the k-th label request succeeded and brought a name that is excluded
FetchedExcluded(k) ==
    /\ log[k].resp.status = "ok"
    /\ \E n \in 1..Len(parse_inactive_ingredients_from_xml(log[k].resp.body)) :
           \E x \in 1..Len(opts.excluded) :
               IsSubstring(lower(opts.excluded[x]),
                           lower(parse_inactive_ingredients_from_xml(log[k].resp.body)[n].name))

\* the positions of the candidates that are not dropped
KeptPositions == {k \in 1..Len(coll) : ~FetchedExcluded(k)}

\* where the candidate of position k stands in the result
PlaceOf(k) == Cardinality({m \in KeptPositions : m <= k})

C26_FailOpen ==
    (prog = "filter_by_excipients" /\ pc = "done") =>
        /\ ~raised
        /\ [j \in 1..Len(ret) |-> [setid |-> ret[j].setid, title |-> ret[j].title]]
               = Pick(coll, KeptPositions, 1)
        /\ \A k \in 1..Len(coll) :
               log[k].resp.status # "ok" =>
                   /\ k \in KeptPositions
                   /\ ret[PlaceOf(k)].setid = coll[k].setid
                   /\ ret[PlaceOf(k)]._inactive_ingredients = <<>>

\* of two different candidates the first was kept after a failed label
\* request and the second was dropped for an excluded ingredient
C26_Witness ==
    /\ prog = "filter_by_excipients"
    /\ pc = "done"
    /\ Len(coll) = 2
    /\ coll[1].setid # coll[2].setid
    /\ log[1].resp.status # "ok"
    /\ FetchedExcluded(2)
    /\ Len(ret) = 1
    /\ ret[1].setid = coll[1].setid

====
